---- MODULE Spec2Model ----
(***************************************************************************)
(* draftIQ: the snake-draft state machine (lib/draft/draft-engine), the    *)
(* pick routes of the API layer that store its snapshots, the client draft *)
(* store and the AI pick selection, as a state machine.                    *)
(*                                                                         *)
(* Conventions.  JavaScript arrays are 1-indexed sequences here, so the    *)
(* code's draftOrder[currentPickIndex] is draftOrder[currentPickIndex+1].  *)
(* An optional value (undefined / null / a missing field) is the empty     *)
(* sequence <<>>, a present one is the one-element sequence <<v>>.         *)
(* Date.now() timestamps (createdAt, updatedAt, DraftPick.timestamp) carry *)
(* no behaviour and are left out of the records.                           *)
(***************************************************************************)
EXTENDS Integers, Sequences, FiniteSets, Bags, TLC

VARIABLES
    draftState,   \* engine: the DraftState threaded through executePick calls
    call,         \* engine: arguments of the last executePick call; store: the last action
    result,       \* engine: value returned by the last executePick call
    drafts,       \* server: the in-memory Map<string, DraftState>
    reqs,         \* server: the bag of /api/ai-pick requests suspended at the delay
    response,     \* server: the response sent by the last handler step, if any
    store,        \* client: the zustand draft store
    page,         \* client: the state of the draft page component
    fin,          \* pure functions: the drawn input
    fout          \* pure functions: the value returned for fin

vars == <<draftState, call, result, drafts, reqs, response, store, page, fin, fout>>

engineVars == <<draftState, call, result>>
serverVars == <<drafts, reqs, response>>
storeVars  == <<store, page>>
pureVars   == <<fin, fout>>

(***************************************************************************)
(* Bounds of the model                                                     *)
(***************************************************************************)
MinTeams == 2        \* smallest league drawn
MaxTeams == 3        \* largest league drawn
MaxRounds == 2       \* largest number of rounds drawn
NumPlayers == 4      \* size of the player pool handed to initializeDraft
ServerPlayers == 3   \* size of the player pool fetched by the create route
MaxRequests == 2     \* /api/ai-pick requests suspended at the same time
MaxScore == 1        \* largest totalScore drawn for a scored player

(***************************************************************************)
(* Helpers for JavaScript array methods                                    *)
(***************************************************************************)
Range(s) == { s[i] : i \in DOMAIN s }

Min(a, b) == IF a <= b THEN a ELSE b
Max(a, b) == IF a >= b THEN a ELSE b

\* [...a].reverse()
Reverse(s) == [ i \in 1..Len(s) |-> s[Len(s) + 1 - i] ]

\* a.find(pred): the first element satisfying pred, <<>> when there is none
Find(s, Pred(_)) ==
    LET hits == { i \in DOMAIN s : Pred(s[i]) }
    IN  IF hits = {} THEN <<>>
        ELSE << s[CHOOSE i \in hits : \A j \in hits : i <= j] >>

\* a.some(pred)
Some(s, Pred(_)) == \E i \in DOMAIN s : Pred(s[i])

\* a.slice(-count)
SliceLast(s, count) ==
    IF Len(s) <= count THEN s ELSE SubSeq(s, Len(s) - count + 1, Len(s))

\* a.slice(0, -1)
DropLast(s) == IF Len(s) = 0 THEN s ELSE SubSeq(s, 1, Len(s) - 1)

(***************************************************************************)
(* The player pool.  fetchNFLPlayers returns the players sorted by ADP     *)
(* ascending; ADP is kept in tenths of a pick so that it stays an integer. *)
(* Two neighbours may share an ADP.                                        *)
(***************************************************************************)
PositionCycle == << "RB", "RB", "WR", "RB", "QB", "WR", "TE" >>
ByeWeekCycle == << 5, 7, 5, 0, 7 >>

Cycle(table, i) == table[((i - 1) % Len(table)) + 1]

PlayerId(i) == "p" \o ToString(i)

\* ADP in tenths: 12, 24, 24, 48, 60, 60, 84, ...
PlayerAdp(i) == 12 * (IF i % 3 = 0 THEN i - 1 ELSE i)

PlayerCatalog ==
    [ i \in 1..NumPlayers |->
        [ id       |-> PlayerId(i),
          position |-> Cycle(PositionCycle, i),
          byeWeek  |-> Cycle(ByeWeekCycle, i),
          adp      |-> PlayerAdp(i) ] ]

InitialPool == PlayerCatalog

PlayerIds == { PlayerCatalog[i].id : i \in DOMAIN PlayerCatalog }

\* the players of the catalog whose index is in the set, in catalog order
PoolOf(indexes) ==
    SelectSeq(PlayerCatalog,
              LAMBDA p : \E i \in indexes : PlayerCatalog[i].id = p.id)

\* a player id that names no player of the pool
UnknownPlayerId == "p0"

(***************************************************************************)
(* Teams                                                                   *)
(***************************************************************************)
UserTeamId == "team-user"
AITeamId(i) == "team-" \o ToString(i)

\* a team id that names no team of any draft
UnknownTeamId == "team-0"

NoProfile == "none"

\* draft-engine initializeDraft, the user team literal
UserTeam(userDraftPosition) ==
    [ id            |-> UserTeamId,
      isUser        |-> TRUE,
      aiProfile     |-> NoProfile,
      roster        |-> <<>>,
      byeWeekCount  |-> <<>>,
      draftPosition |-> userDraftPosition ]

\* draft-engine initializeDraft, the AI team literal
AITeam(i) ==
    [ id            |-> AITeamId(i),
      isUser        |-> FALSE,
      aiProfile     |-> NoProfile,
      roster        |-> <<>>,
      byeWeekCount  |-> <<>>,
      draftPosition |-> i ]

\* teams.sort((a, b) => a.draftPosition - b.draftPosition): a stable sort
RECURSIVE InsertTeam(_, _)
InsertTeam(sorted, t) ==
    IF sorted = <<>> THEN << t >>
    ELSE IF Head(sorted).draftPosition <= t.draftPosition
         THEN << Head(sorted) >> \o InsertTeam(Tail(sorted), t)
         ELSE << t >> \o sorted

RECURSIVE SortTeams(_)
SortTeams(teams) ==
    IF teams = <<>> THEN <<>>
    ELSE InsertTeam(SortTeams(DropLast(teams)), teams[Len(teams)])

(***************************************************************************)
(* draft-engine: generateSnakeDraftOrder                                   *)
(***************************************************************************)
\* the mutant: every round goes forward
RoundOrderNoSnake(teamIds, round) == teamIds

\* the order of one round: even rounds forward, odd rounds backward
RoundOrder(teamIds, round) ==
    IF round % 2 = 0 THEN teamIds ELSE Reverse(teamIds)

RECURSIVE SnakeFromRound(_, _, _)
SnakeFromRound(teamIds, round, numRounds) ==
    IF round >= numRounds THEN <<>>
    ELSE RoundOrder(teamIds, round) \o SnakeFromRound(teamIds, round + 1, numRounds)

GenerateSnakeDraftOrder(teams, numRounds) ==
    SnakeFromRound([ i \in 1..Len(teams) |-> teams[i].id ], 0, numRounds)

(***************************************************************************)
(* draft-engine: validatePick, isDraftComplete, getCurrentRound,           *)
(* getCurrentPickInRound                                                   *)
(***************************************************************************)
ErrNotInProgress == "Draft is not in progress"
ErrWrongTurn == "Not this team's turn"
ErrPlayerUnavailable == "Player not available"
ErrAlreadyDrafted == "Player already drafted"
ErrPlayerNotFound == "Player not found"
ErrTeamNotFound == "Team not found"

\* draftOrder[currentPickIndex]; an index outside the array reads undefined
CurrentTeamId(ds) ==
    IF ds.currentPickIndex + 1 \in DOMAIN ds.draftOrder
    THEN << ds.draftOrder[ds.currentPickIndex + 1] >>
    ELSE <<>>

\* the mutant: the turn check is skipped
ValidatePickNoTurn(ds, teamId, playerId) ==
    IF ds.status # "in_progress"
    THEN [ valid |-> FALSE, error |-> << ErrNotInProgress >> ]
    ELSE IF ~ Some(ds.availablePlayers, LAMBDA p : p.id = playerId)
    THEN [ valid |-> FALSE, error |-> << ErrPlayerUnavailable >> ]
    ELSE IF Some(ds.picks, LAMBDA pick : pick.playerId = playerId)
    THEN [ valid |-> FALSE, error |-> << ErrAlreadyDrafted >> ]
    ELSE [ valid |-> TRUE, error |-> <<>> ]

\* the mutant: the availability check runs before the turn check
ValidatePickPlayerFirst(ds, teamId, playerId) ==
    IF ds.status # "in_progress"
    THEN [ valid |-> FALSE, error |-> << ErrNotInProgress >> ]
    ELSE IF ~ Some(ds.availablePlayers, LAMBDA p : p.id = playerId)
    THEN [ valid |-> FALSE, error |-> << ErrPlayerUnavailable >> ]
    ELSE IF CurrentTeamId(ds) # << teamId >>
    THEN [ valid |-> FALSE, error |-> << ErrWrongTurn >> ]
    ELSE IF Some(ds.picks, LAMBDA pick : pick.playerId = playerId)
    THEN [ valid |-> FALSE, error |-> << ErrAlreadyDrafted >> ]
    ELSE [ valid |-> TRUE, error |-> <<>> ]

ValidatePick(ds, teamId, playerId) ==
    IF ds.status # "in_progress"
    THEN [ valid |-> FALSE, error |-> << ErrNotInProgress >> ]
    ELSE IF CurrentTeamId(ds) # << teamId >>
    THEN [ valid |-> FALSE, error |-> << ErrWrongTurn >> ]
    ELSE IF ~ Some(ds.availablePlayers, LAMBDA p : p.id = playerId)
    THEN [ valid |-> FALSE, error |-> << ErrPlayerUnavailable >> ]
    ELSE IF Some(ds.picks, LAMBDA pick : pick.playerId = playerId)
    THEN [ valid |-> FALSE, error |-> << ErrAlreadyDrafted >> ]
    ELSE [ valid |-> TRUE, error |-> <<>> ]

\* the mutant: the draft completes one pick early
IsDraftCompleteEarly(ds) ==
    Len(ds.picks) + 1 >= ds.settings.numTeams * ds.settings.numRounds

IsDraftComplete(ds) ==
    Len(ds.picks) >= ds.settings.numTeams * ds.settings.numRounds

\* the mutant: the round is that of the pick after this one
GetCurrentRoundOfNext(ds) == ((ds.currentPickIndex + 1) \div ds.settings.numTeams) + 1

GetCurrentRound(ds) == (ds.currentPickIndex \div ds.settings.numTeams) + 1

GetCurrentPickInRound(ds) == (ds.currentPickIndex % ds.settings.numTeams) + 1

(***************************************************************************)
(* draft-engine: initializeDraft                                           *)
(***************************************************************************)
DraftId == "d1"

\* the mutant: the teams stay in the order they were pushed, user team first
DraftTeamsUnsorted(userDraftPosition, numTeams) ==
    << UserTeam(userDraftPosition) >>
        \o SelectSeq([ i \in 1..numTeams |-> AITeam(i) ],
                     LAMBDA t : t.draftPosition # userDraftPosition)

\* the teams of a new draft, sorted by draft position, lines 158-206
DraftTeams(userDraftPosition, numTeams) ==
    LET aiTeams == SelectSeq([ i \in 1..numTeams |-> AITeam(i) ],
                             LAMBDA t : t.draftPosition # userDraftPosition)
    IN  SortTeams(<< UserTeam(userDraftPosition) >> \o aiTeams)

\* createdAt is the clock reading Date.now() at construction, instant 0 of
\* the model; updatedAt, which every call overwrites with the clock reading
\* of that moment and which nothing reads, is not kept in the model's state
InitializeDraft(userDraftPosition, settings, availablePlayers) ==
    LET teams == DraftTeams(userDraftPosition, settings.numTeams)
    IN  [ id               |-> DraftId,
          teams            |-> teams,
          picks            |-> <<>>,
          currentPickIndex |-> 0,
          availablePlayers |-> availablePlayers,
          draftOrder       |-> GenerateSnakeDraftOrder(teams, settings.numRounds),
          settings         |-> settings,
          status           |-> "in_progress",
          createdAt        |-> 0 ]

(***************************************************************************)
(* draft-engine: executePick                                               *)
(***************************************************************************)
Failure(error) == [ success |-> FALSE, error |-> error, updatedState |-> <<>> ]

\* the pick record, lines 254-269
NewPick(ds, team, playerId) ==
    [ id          |-> "pick-" \o ToString(ds.currentPickIndex + 1),
      draftId     |-> ds.id,
      teamId      |-> team.id,
      playerId    |-> playerId,
      pickNumber  |-> ds.currentPickIndex + 1,
      round       |-> GetCurrentRound(ds),
      pickInRound |-> GetCurrentPickInRound(ds),
      isAIPick    |-> ~ team.isUser ]

\* the mutant: the player is given to every team
UpdatedTeamsAll(ds, teamId, player) ==
    [ i \in 1..Len(ds.teams) |->
        [ ds.teams[i] EXCEPT !.roster = Append(@, player) ] ]

\* the teams with the player appended to the picking team's roster, lines 272-280
UpdatedTeams(ds, teamId, player) ==
    [ i \in 1..Len(ds.teams) |->
        IF ds.teams[i].id = teamId
        THEN [ ds.teams[i] EXCEPT !.roster = Append(@, player) ]
        ELSE ds.teams[i] ]

\* the mutant: the picked player stays in the pool
UpdatedAvailablePlayersKept(ds, playerId) == ds.availablePlayers

\* the pool without the picked player, lines 282-284
UpdatedAvailablePlayers(ds, playerId) ==
    SelectSeq(ds.availablePlayers, LAMBDA p : p.id # playerId)

\* the mutant: the pick index is not advanced
NextPickIndexStuck(ds) == ds.currentPickIndex

\* line 293
NextPickIndex(ds) == ds.currentPickIndex + 1

\* the part of executePick after validation, lines 242-300
ApplyPick(ds, teamId, playerId) ==
    LET player == Find(ds.availablePlayers, LAMBDA p : p.id = playerId)
        team   == Find(ds.teams, LAMBDA t : t.id = teamId)
    IN  IF player = <<>> THEN Failure(<< ErrPlayerNotFound >>)
        ELSE IF team = <<>> THEN Failure(<< ErrTeamNotFound >>)
        ELSE
          LET updatedPicks == Append(ds.picks, NewPick(ds, team[1], playerId))
              updatedState ==
                [ ds EXCEPT
                    !.teams = UpdatedTeams(ds, teamId, player[1]),
                    !.picks = updatedPicks,
                    !.availablePlayers = UpdatedAvailablePlayers(ds, playerId),
                    !.currentPickIndex = NextPickIndex(ds),
                    !.status = IF IsDraftComplete([ ds EXCEPT !.picks = updatedPicks ])
                               THEN "completed" ELSE "in_progress" ]
          IN  [ success |-> TRUE, error |-> <<>>, updatedState |-> << updatedState >> ]

\* the mutant: the pick is applied without validation
ExecutePickUnvalidated(ds, teamId, playerId) == ApplyPick(ds, teamId, playerId)

ExecutePick(ds, teamId, playerId) ==
    LET validation == ValidatePick(ds, teamId, playerId)
    IN  IF ~ validation.valid
        THEN Failure(validation.error)
        ELSE ApplyPick(ds, teamId, playerId)

(***************************************************************************)
(* store/draft-store: makePick and undoLastPick as functions of the store  *)
(* state (get() before, the merged set({...}) after)                       *)
(***************************************************************************)
\* [...].sort((a, b) => a.adp - b.adp): a stable sort
RECURSIVE InsertPlayer(_, _)
InsertPlayer(sorted, player) ==
    IF sorted = <<>> THEN << player >>
    ELSE IF Head(sorted).adp <= player.adp
         THEN << Head(sorted) >> \o InsertPlayer(Tail(sorted), player)
         ELSE << player >> \o sorted

\* the mutant: the list is left in the order it has
SortByAdpNone(players) == players

RECURSIVE SortByAdp(_)
SortByAdp(players) ==
    IF players = <<>> THEN <<>>
    ELSE InsertPlayer(SortByAdp(DropLast(players)), players[Len(players)])

MakePick(state, teamId, player) ==
    LET currentTeam == Find(state.teams, LAMBDA t : t.id = teamId)
    IN  IF currentTeam = <<>> THEN state
        ELSE [ state EXCEPT
                 !.picks = Append(state.picks, NewPick(state, currentTeam[1], player.id)),
                 !.teams = UpdatedTeams(state, teamId, player),
                 !.availablePlayers = UpdatedAvailablePlayers(state, player.id),
                 !.currentPickIndex = state.currentPickIndex + 1,
                 !.status =
                    IF state.currentPickIndex + 1
                         >= state.settings.numTeams * state.settings.numRounds
                    THEN "completed" ELSE "in_progress" ]

\* the mutant: undo without the guard on an empty pick list and without the
\* floor of the pick index
UndoLastPickUnguarded(state) ==
    [ state EXCEPT !.picks = DropLast(state.picks),
                   !.currentPickIndex = state.currentPickIndex - 1,
                   !.status = "in_progress" ]

UndoLastPick(state) ==
    IF Len(state.picks) = 0 THEN state
    ELSE
      LET lastPick == state.picks[Len(state.picks)]
          pickedPlayer == Find(state.availablePlayers, LAMBDA p : p.id = lastPick.playerId)
      IN  IF pickedPlayer = <<>> THEN state
          ELSE [ state EXCEPT
                   !.picks = DropLast(state.picks),
                   !.teams =
                      [ i \in DOMAIN state.teams |->
                          IF state.teams[i].id = lastPick.teamId
                          THEN [ state.teams[i] EXCEPT !.roster =
                                   SelectSeq(@, LAMBDA p : p.id # lastPick.playerId) ]
                          ELSE state.teams[i] ],
                   !.availablePlayers =
                      SortByAdp(Append(state.availablePlayers, pickedPlayer[1])),
                   !.currentPickIndex = Max(0, state.currentPickIndex - 1),
                   !.status = "in_progress" ]

\* the state of a new store, lines 21-47
InitialState ==
    [ id               |-> "",
      teams            |-> <<>>,
      picks            |-> <<>>,
      currentPickIndex |-> 0,
      availablePlayers |-> <<>>,
      draftOrder       |-> <<>>,
      settings         |-> [ numTeams |-> 12, numRounds |-> 15 ],
      status           |-> "setup",
      createdAt        |-> 0 ]

\* set({ ...draft }): every field of the store is a field of the draft
SetDraft(state, draft) == draft

\* set({ availablePlayers: players })
UpdateAvailablePlayers(state, players) == [ state EXCEPT !.availablePlayers = players ]

(***************************************************************************)
(* decision-engine: selectAIPick.  scorePlayer multiplies its total by a   *)
(* Math.random() noise term, so the totalScore of each scored player is an *)
(* argument here: totalScores[i] is the totalScore of                      *)
(* scorePlayer(availablePlayers[i], ...).                                  *)
(***************************************************************************)
\* the mutant: the lowest score wins
BestIndexLowest(totalScores) ==
    CHOOSE i \in DOMAIN totalScores :
        \A j \in DOMAIN totalScores :
            \/ totalScores[j] > totalScores[i]
            \/ (totalScores[j] = totalScores[i] /\ i <= j)

\* scores.sort((a, b) => b.totalScore - a.totalScore)[0]: the sort is stable,
\* so the first of the entries with the highest score comes first
BestIndex(totalScores) ==
    CHOOSE i \in DOMAIN totalScores :
        \A j \in DOMAIN totalScores :
            \/ totalScores[j] < totalScores[i]
            \/ (totalScores[j] = totalScores[i] /\ i <= j)

\* validateAIPick, lines 257-273; ADP is in tenths, so the reach of more
\* than 40 picks is a difference of more than 400
ValidateAIPick(player, team, ds) ==
    LET available == Some(ds.availablePlayers, LAMBDA p : p.id = player.id)
        currentPick == ds.currentPickIndex + 1
        reachAmount == currentPick * 10 - player.adp
    IN  IF ~ available THEN FALSE
        ELSE IF reachAmount > 400 THEN FALSE
        ELSE TRUE

\* the mutant: a selection that validateAIPick rejects is not returned
SelectAIPickValidated(team, ds, availablePlayers, totalScores) ==
    IF Len(availablePlayers) = 0 THEN <<>>
    ELSE LET selected == IF team.aiProfile = NoProfile THEN availablePlayers[1]
                         ELSE availablePlayers[BestIndex(totalScores)]
         IN  IF ValidateAIPick(selected, team, ds) THEN << selected >> ELSE <<>>

\* the mutant: the selection is looked up in the pool the draft started with
SelectAIPickInitialPool(team, ds, availablePlayers, totalScores) ==
    IF Len(availablePlayers) = 0 THEN <<>>
    ELSE IF team.aiProfile = NoProfile THEN << InitialPool[1] >>
    ELSE << InitialPool[BestIndex(totalScores)] >>

SelectAIPick(team, ds, availablePlayers, totalScores) ==
    IF Len(availablePlayers) = 0 THEN <<>>
    ELSE IF team.aiProfile = NoProfile THEN << availablePlayers[1] >>
    ELSE LET bestPlayerId == availablePlayers[BestIndex(totalScores)].id
         IN  Find(availablePlayers, LAMBDA p : p.id = bestPlayerId)

(***************************************************************************)
(* ai/profiles: the registry and assignRandomProfiles                      *)
(***************************************************************************)
ProfileIds ==
    << "analyst", "gambler", "homer", "reactor", "valueHunter", "balanced",
       "bestAvailable" >>

\* the profiles before the shuffle: availableIds[i % availableIds.length]
CycledProfiles(numTeams) ==
    [ i \in 1..numTeams |-> ProfileIds[((i - 1) % Len(ProfileIds)) + 1] ]

\* shuffle(profiles): any permutation of the list
Shuffles(profiles) ==
    { [ i \in DOMAIN profiles |-> profiles[perm[i]] ] :
        perm \in { f \in [ DOMAIN profiles -> DOMAIN profiles ] :
                     \A i, j \in DOMAIN profiles : f[i] = f[j] => i = j } }

AssignRandomProfiles(numTeams) == Shuffles(CycledProfiles(numTeams))

(***************************************************************************)
(* API routes: the drafts map and the responses                           *)
(***************************************************************************)
EmptyMap == << >>

\* drafts.get(draftId)
MapGet(map, key) == IF key \in DOMAIN map THEN << map[key] >> ELSE <<>>

\* drafts.set(draftId, value)
MapSet(map, key, value) ==
    [ k \in (DOMAIN map) \cup { key } |-> IF k = key THEN value ELSE map[k] ]

\* NextResponse.json({ success: false, error }, { status })
ErrorBody(status, error) ==
    [ status |-> status, success |-> FALSE, error |-> << error >> ]

\* NextResponse.json({ success: true, data }); data is the snapshot that the
\* handler has just stored, so it is read from drafts and not repeated here
OkBody == [ status |-> 200, success |-> TRUE, error |-> <<>> ]

\* one answered request: the route, the request body and the answer
Exchange(route, request, body) ==
    << [ route |-> route, request |-> request, body |-> body ] >>

NoResponse == <<>>

(***************************************************************************)
(* POST /api/draft/create                                                  *)
(***************************************************************************)
\* the players fetchNFLPlayers returns, lines 37-44
ServerPool == SubSeq(PlayerCatalog, 1, Min(ServerPlayers, NumPlayers))

\* lines 101-110: every AI team gets the profile of its draft position.  For
\* a request that carries no aiProfiles the positions are filled from the
\* shuffled pool in ascending order (lines 74-80).
AssignProfiles(ds, userDraftPosition, randomPool) ==
    [ ds EXCEPT !.teams =
        [ i \in DOMAIN ds.teams |->
            IF ds.teams[i].isUser THEN ds.teams[i]
            ELSE [ ds.teams[i] EXCEPT !.aiProfile =
                     LET position == ds.teams[i].draftPosition
                         poolIndex == IF position < userDraftPosition
                                      THEN position - 1 ELSE position - 2
                     IN  randomPool[(poolIndex % Len(randomPool)) + 1] ] ] ]

CreateDraft(userDraftPosition, settings) ==
    LET request == [ userDraftPosition |-> userDraftPosition, settings |-> settings ]
    IN
    IF userDraftPosition = 0
    THEN /\ response' = Exchange("create", request, ErrorBody(400, "Missing required fields"))
         /\ UNCHANGED << drafts, reqs >>
    ELSE IF userDraftPosition < 1 \/ userDraftPosition > settings.numTeams
    THEN /\ response' = Exchange("create", request, ErrorBody(400, "Invalid draft position"))
         /\ UNCHANGED << drafts, reqs >>
    ELSE \E randomPool \in AssignRandomProfiles(settings.numTeams) :
           LET ds == AssignProfiles(
                        InitializeDraft(userDraftPosition, settings, ServerPool),
                        userDraftPosition, randomPool)
           IN  /\ DraftId \notin DOMAIN drafts
               /\ drafts' = MapSet(drafts, ds.id, ds)
               /\ response' = Exchange("create", request, OkBody)
               /\ UNCHANGED reqs

(***************************************************************************)
(* POST /api/draft/pick: no await between drafts.get and drafts.set        *)
(***************************************************************************)
PickRoute(draftId, teamId, playerId) ==
    LET request == [ draftId |-> draftId, teamId |-> teamId, playerId |-> playerId ]
        draft == MapGet(drafts, draftId)
    IN  IF draftId = "" \/ teamId = "" \/ playerId = ""
        THEN /\ response' = Exchange("pick", request, ErrorBody(400, "Missing required fields"))
             /\ UNCHANGED << drafts, reqs >>
        ELSE IF draft = <<>>
        THEN /\ response' = Exchange("pick", request, ErrorBody(404, "Draft not found"))
             /\ UNCHANGED << drafts, reqs >>
        ELSE LET r == ExecutePick(draft[1], teamId, playerId)
             IN  IF ~ r.success
                 THEN /\ response' = Exchange("pick", request, ErrorBody(400, r.error[1]))
                      /\ UNCHANGED << drafts, reqs >>
                 ELSE /\ drafts' = MapSet(drafts, draftId, r.updatedState[1])
                      /\ response' = Exchange("pick", request, OkBody)
                      /\ UNCHANGED reqs

(***************************************************************************)
(* POST /api/ai-pick: the draft and the team are read before the await of  *)
(* simulateThinkingDelay(), the pick is selected and executed after it.    *)
(***************************************************************************)
\* a handler suspended at line 60 with its local variables
Suspended(draftId, teamId, draft, team) ==
    [ draftId |-> draftId, teamId |-> teamId, draft |-> draft, team |-> team ]

\* lines 9-60: up to the suspension at the thinking delay
AIPickBegin(draftId, teamId) ==
    LET request == [ draftId |-> draftId, teamId |-> teamId ]
        draft == MapGet(drafts, draftId)
        team == IF draft = <<>> THEN <<>>
                ELSE Find(draft[1].teams, LAMBDA t : t.id = teamId)
    IN  IF draftId = "" \/ teamId = ""
        THEN /\ response' = Exchange("ai-pick", request, ErrorBody(400, "Missing required fields"))
             /\ UNCHANGED << drafts, reqs >>
        ELSE IF draft = <<>>
        THEN /\ response' = Exchange("ai-pick", request, ErrorBody(404, "Draft not found"))
             /\ UNCHANGED << drafts, reqs >>
        ELSE IF team = <<>>
        THEN /\ response' = Exchange("ai-pick", request, ErrorBody(404, "Team not found"))
             /\ UNCHANGED << drafts, reqs >>
        ELSE IF team[1].isUser
        THEN /\ response' = Exchange("ai-pick", request,
                                     ErrorBody(400, "Cannot make AI pick for user team"))
             /\ UNCHANGED << drafts, reqs >>
        ELSE /\ BagCardinality(reqs) < MaxRequests
             /\ reqs' = reqs (+) SetToBag({ Suspended(draftId, teamId, draft[1], team[1]) })
             /\ response' = NoResponse
             /\ UNCHANGED drafts

\* lines 62-102: after the delay, on the draft and team read before it
AIPickResume(req, totalScores) ==
    /\ BagIn(req, reqs)
    /\ DOMAIN totalScores = DOMAIN req.draft.availablePlayers
    /\ reqs' = reqs (-) SetToBag({ req })
    /\ LET request == [ draftId |-> req.draftId, teamId |-> req.teamId ]
           selectedPlayer ==
               SelectAIPick(req.team, req.draft, req.draft.availablePlayers, totalScores)
       IN  IF selectedPlayer = <<>>
           THEN /\ response' = Exchange("ai-pick", request, ErrorBody(500, "AI could not select a player"))
                /\ UNCHANGED drafts
           ELSE LET res == ExecutePick(req.draft, req.teamId, selectedPlayer[1].id)
                IN  IF ~ res.success
                    THEN /\ response' = Exchange("ai-pick", request, ErrorBody(400, res.error[1]))
                         /\ UNCHANGED drafts
                    ELSE /\ drafts' = MapSet(drafts, req.draftId, res.updatedState[1])
                         /\ response' = Exchange("ai-pick", request, OkBody)

(***************************************************************************)
(* Inputs drawn for the calls                                              *)
(***************************************************************************)
SettingsSet ==
    { [ numTeams |-> n, numRounds |-> r ] : n \in MinTeams..MaxTeams, r \in 1..MaxRounds }

TeamIdInputs ==
    { UserTeamId, UnknownTeamId } \cup { AITeamId(i) : i \in 1..MaxTeams }

PlayerIdInputs == PlayerIds \cup { UnknownPlayerId }

\* a draft id that names no stored draft
UnknownDraftId == "d0"

\* request bodies of POST /api/draft/pick: every team and player id for the
\* draft, one request for an unknown draft and one with a missing field
PickRequests ==
    { [ draftId |-> DraftId, teamId |-> t, playerId |-> p ] :
        t \in { UserTeamId, UnknownTeamId } \cup { AITeamId(i) : i \in 1..MinTeams },
        p \in { ServerPool[i].id : i \in DOMAIN ServerPool } \cup { UnknownPlayerId } }
    \cup { [ draftId |-> UnknownDraftId, teamId |-> UserTeamId, playerId |-> PlayerId(1) ],
           [ draftId |-> DraftId, teamId |-> UserTeamId, playerId |-> "" ] }

\* request bodies of POST /api/ai-pick
AIPickRequests ==
    { [ draftId |-> DraftId, teamId |-> t ] :
        t \in { UserTeamId, UnknownTeamId } \cup { AITeamId(i) : i \in 1..MinTeams } }
    \cup { [ draftId |-> UnknownDraftId, teamId |-> AITeamId(1) ],
           [ draftId |-> DraftId, teamId |-> "" ] }

ScoreLists(n) == [ 1..n -> 0..MaxScore ]

NoCall == <<>>
NoResult == <<>>

(***************************************************************************)
(* Spec: the engine.  A draft is created by initializeDraft and then       *)
(* driven by executePick calls with any team id and any player id.         *)
(***************************************************************************)
IdleServer == drafts = <<>> /\ reqs = <<>> /\ response = <<>>
IdleStore == store = <<>> /\ page = <<>>
IdlePure == fin = <<>> /\ fout = <<>>
IdleEngine == draftState = <<>> /\ call = NoCall /\ result = NoResult

Init ==
    /\ \E settings \in SettingsSet :
         \E userDraftPosition \in 1..settings.numTeams :
            draftState = InitializeDraft(userDraftPosition, settings, InitialPool)
    /\ call = NoCall
    /\ result = NoResult
    /\ IdleServer /\ IdleStore /\ IdlePure

\* one call executePick(draftState, teamId, playerId); the caller continues
\* with updatedState when the call succeeded and with its state otherwise
ExecutePickCall(teamId, playerId) ==
    LET r == ExecutePick(draftState, teamId, playerId)
    IN  /\ call' = << [ teamId |-> teamId, playerId |-> playerId ] >>
        /\ result' = << r >>
        /\ draftState' = IF r.success THEN r.updatedState[1] ELSE draftState
        /\ UNCHANGED << serverVars, storeVars, pureVars >>

Next == \E teamId \in TeamIdInputs, playerId \in PlayerIdInputs :
            ExecutePickCall(teamId, playerId)

Spec == Init /\ [][Next]_vars

(***************************************************************************)
(* Properties of the engine, checked under Spec                            *)
(***************************************************************************)
TotalPicks(ds) == ds.settings.numTeams * ds.settings.numRounds

\* number of entries of a sequence of players that carry the id
Occurrences(players, id) == Cardinality({ i \in DOMAIN players : players[i].id = id })

\* number of roster entries, over all teams, that carry the id
RosterOccurrences(ds, id) ==
    Cardinality({ << t, i >> \in (DOMAIN ds.teams) \X (1..NumPlayers) :
                    /\ i \in DOMAIN ds.teams[t].roster
                    /\ ds.teams[t].roster[i].id = id })

C1_IndexIsPickCount == draftState.currentPickIndex = Len(draftState.picks)

C1_SuccessAdvancesByOne ==
    result'[1].success =>
        /\ draftState'.currentPickIndex = draftState.currentPickIndex + 1
        /\ Len(draftState'.picks) = Len(draftState.picks) + 1

\* C1: in every state reached from initializeDraft by executePick calls
\* currentPickIndex equals picks.length, and every successful executePick
\* raises currentPickIndex and picks.length by exactly 1.
C1_PickMonotonicity == [] C1_IndexIsPickCount /\ [][C1_SuccessAdvancesByOne]_vars

C1_Witness ==
    /\ result # NoResult
    /\ result[1].success
    /\ draftState.currentPickIndex = 2

\* C2: every player of the initial pool is in exactly one of availablePlayers
\* and the rosters (once, in one team); a picked player is not available and
\* no player id is picked twice.
C2_Conservation ==
    /\ \A i \in DOMAIN InitialPool :
         Occurrences(draftState.availablePlayers, InitialPool[i].id)
           + RosterOccurrences(draftState, InitialPool[i].id) = 1
    /\ \A i \in DOMAIN draftState.picks :
         ~ Some(draftState.availablePlayers,
                LAMBDA p : p.id = draftState.picks[i].playerId)
    /\ \A i, j \in DOMAIN draftState.picks :
         draftState.picks[i].playerId = draftState.picks[j].playerId => i = j

C2_Witness ==
    /\ Len(draftState.picks) >= 3
    /\ \E t \in DOMAIN draftState.teams : Len(draftState.teams[t].roster) >= 2
    /\ Len(draftState.availablePlayers) >= 1

C12_RecordOfStep ==
    result'[1].success =>
        LET i == draftState.currentPickIndex
            numTeams == draftState.settings.numTeams
            team == Find(draftState.teams, LAMBDA t : t.id = call'[1].teamId)[1]
            pick == draftState'.picks[Len(draftState'.picks)]
        IN  /\ draftState'.picks = Append(draftState.picks, pick)
            /\ pick.pickNumber = i + 1
            /\ pick.round = (i \div numTeams) + 1
            /\ pick.pickInRound = (i % numTeams) + 1
            /\ pick.teamId = call'[1].teamId
            /\ pick.playerId = call'[1].playerId
            /\ pick.isAIPick = ~ team.isUser

\* C12: the DraftPick appended by a successful executePick from a state with
\* currentPickIndex = i has pickNumber i+1, round floor(i / numTeams) + 1,
\* pickInRound (i mod numTeams) + 1, the picking team's id, the picked
\* player's id and isAIPick = not team.isUser.
C12_PickRecord == [][C12_RecordOfStep]_vars

C12_Witness ==
    /\ result # NoResult /\ result[1].success
    /\ Len(draftState.picks) = draftState.settings.numTeams + 1
    /\ draftState.picks[Len(draftState.picks)].round = 2
    /\ draftState.picks[Len(draftState.picks)].pickInRound = 1
    /\ draftState.picks[Len(draftState.picks)].isAIPick

\* C20: in every DraftState returned by initializeDraft and reached from it
\* by executePick, a team has an aiProfile if and only if it is not the user
\* team.
C20_ProfileIffNotUser ==
    \A t \in DOMAIN draftState.teams :
        (draftState.teams[t].aiProfile # NoProfile) <=> ~ draftState.teams[t].isUser

\* the state is S again after a pick and its undo
Restores(S, undone, playerId) ==
    /\ undone.teams = S.teams
    /\ undone.picks = S.picks
    /\ undone.currentPickIndex = S.currentPickIndex
    /\ Some(undone.availablePlayers, LAMBDA p : p.id = playerId)

\* C4: for a reachable in-progress state S and a legal (team, player), the
\* pick (executePick, or the store's makePick) followed by undoLastPick gives
\* back S's rosters, pick list and currentPickIndex, and the player is in
\* availablePlayers again.
C4_UndoIsInverse ==
    \A teamId \in TeamIdInputs, playerId \in PlayerIdInputs :
        ValidatePick(draftState, teamId, playerId).valid =>
            LET player == Find(draftState.availablePlayers, LAMBDA p : p.id = playerId)[1]
                executed == ExecutePick(draftState, teamId, playerId).updatedState[1]
                made == MakePick(draftState, teamId, player)
            IN  /\ Restores(draftState, UndoLastPick(executed), playerId)
                /\ Restores(draftState, UndoLastPick(made), playerId)

(***************************************************************************)
(* SpecOrder: generateSnakeDraftOrder applied to drawn team lists.  The    *)
(* lists are the ones initializeDraft builds, for every user position it   *)
(* can be called with, and the round count starts at 0.                    *)
(***************************************************************************)
InitOrder ==
    /\ \E numTeams \in 1..(MaxTeams + 1), numRounds \in 0..(MaxRounds + 1) :
         \E userDraftPosition \in 0..(numTeams + 1) :
            fin = << [ teams     |-> DraftTeams(userDraftPosition, numTeams),
                       numRounds |-> numRounds ] >>
    /\ fout = <<>>
    /\ IdleEngine /\ IdleServer /\ IdleStore

ApplyOrder ==
    /\ fout' = << GenerateSnakeDraftOrder(fin[1].teams, fin[1].numRounds) >>
    /\ UNCHANGED << fin, engineVars, serverVars, storeVars >>

NextOrder == ApplyOrder

SpecOrder == InitOrder /\ [][NextOrder]_vars

\* C7: for N teams in draft-position order and R rounds the order has N*R
\* entries; entries r*N .. r*N+N-1 (0-indexed) are the teams in ascending
\* position order when r is even and in descending order when r is odd.
C7_SnakeOrder ==
    fout # <<>> =>
        LET teams == fin[1].teams
            N == Len(teams)
            R == fin[1].numRounds
            order == fout[1]
        IN  /\ Len(order) = N * R
            /\ \A r \in 0..(R - 1), k \in 1..N :
                 order[r * N + k] =
                    IF r % 2 = 0 THEN teams[k].id ELSE teams[N + 1 - k].id
            /\ \A k \in 1..(N - 1) :
                 teams[k].draftPosition < teams[k + 1].draftPosition

C7_Witness ==
    /\ fout # <<>>
    /\ Len(fin[1].teams) = 4
    /\ fin[1].numRounds = 3
    /\ Len(fout[1]) = 12
    /\ fout[1][4] = fout[1][5]
    /\ fout[1][8] = fout[1][9]
    /\ fout[1][1] # fout[1][5]

(***************************************************************************)
(* SpecInitialize: initializeDraft applied to drawn arguments.  The        *)
(* function is exported and checks none of its arguments, so the user      *)
(* position ranges over 0..numTeams+1 and the pool over every sub-list of  *)
(* the catalog.                                                            *)
(***************************************************************************)
InitInitialize ==
    /\ \E settings \in SettingsSet :
         \E userDraftPosition \in 0..(settings.numTeams + 1),
            indexes \in SUBSET (DOMAIN PlayerCatalog) :
            fin = << [ userDraftPosition |-> userDraftPosition,
                       settings          |-> settings,
                       availablePlayers  |-> PoolOf(indexes) ] >>
    /\ fout = <<>>
    /\ IdleEngine /\ IdleServer /\ IdleStore

ApplyInitialize ==
    /\ fout' = << InitializeDraft(fin[1].userDraftPosition, fin[1].settings,
                                  fin[1].availablePlayers) >>
    /\ UNCHANGED << fin, engineVars, serverVars, storeVars >>

NextInitialize == ApplyInitialize

SpecInitialize == InitInitialize /\ [][NextInitialize]_vars

\* C14: draftOrder.length = numTeams * numRounds in every DraftState that
\* initializeDraft returns, for every userDraftPosition and settings.
C14_DraftOrderLength ==
    fout # <<>> =>
        Len(fout[1].draftOrder) = fin[1].settings.numTeams * fin[1].settings.numRounds

\* C15: for 1 <= userDraftPosition <= numTeams the returned state has
\* exactly numTeams teams in draft-position order, the user team at
\* userDraftPosition and an AI team at every other position, all rosters
\* empty, no picks, currentPickIndex 0, status in_progress, the given pool
\* and the snake order of those teams.
C15_InitialState ==
    (fout # <<>> /\ fin[1].userDraftPosition \in 1..fin[1].settings.numTeams) =>
        LET ds == fout[1]
            numTeams == fin[1].settings.numTeams
            numRounds == fin[1].settings.numRounds
        IN  /\ Len(ds.teams) = numTeams
            /\ \A k \in 1..numTeams :
                 /\ ds.teams[k].draftPosition = k
                 /\ ds.teams[k].isUser <=> (k = fin[1].userDraftPosition)
                 /\ ds.teams[k].id = IF k = fin[1].userDraftPosition
                                     THEN UserTeamId ELSE AITeamId(k)
                 /\ ds.teams[k].roster = <<>>
            /\ ds.picks = <<>>
            /\ ds.currentPickIndex = 0
            /\ ds.status = "in_progress"
            /\ ds.availablePlayers = fin[1].availablePlayers
            /\ ds.settings = fin[1].settings
            /\ Len(ds.draftOrder) = numTeams * numRounds
            /\ \A r \in 0..(numRounds - 1), k \in 1..numTeams :
                 ds.draftOrder[r * numTeams + k] =
                    IF r % 2 = 0 THEN ds.teams[k].id ELSE ds.teams[numTeams + 1 - k].id

C15_Witness ==
    /\ fout # <<>>
    /\ fin[1].settings = [ numTeams |-> 3, numRounds |-> 2 ]
    /\ fin[1].userDraftPosition = 2
    /\ Len(fin[1].availablePlayers) = 2
    /\ fout[1].draftOrder = << "team-1", "team-user", "team-3",
                               "team-3", "team-user", "team-1" >>

(***************************************************************************)
(* SpecSelect: selectAIPick applied to drawn arguments: an AI team with or *)
(* without a profile, every sub-list of the catalog as the pool, and every *)
(* list of totalScores for the players of the pool.                        *)
(***************************************************************************)
InitSelect ==
    /\ \E profile \in { NoProfile } \cup Range(ProfileIds),
          indexes \in SUBSET (DOMAIN PlayerCatalog) :
         \E totalScores \in ScoreLists(Cardinality(indexes)) :
            fin = << [ team             |-> [ AITeam(1) EXCEPT !.aiProfile = profile ],
                       draftState       |-> InitializeDraft(2, [ numTeams |-> MinTeams,
                                                                 numRounds |-> 1 ],
                                                            PoolOf(indexes)),
                       availablePlayers |-> PoolOf(indexes),
                       totalScores      |-> totalScores ] >>
    /\ fout = <<>>
    /\ IdleEngine /\ IdleServer /\ IdleStore

ApplySelect ==
    /\ fout' = << SelectAIPick(fin[1].team, fin[1].draftState,
                               fin[1].availablePlayers, fin[1].totalScores) >>
    /\ UNCHANGED << fin, engineVars, serverVars, storeVars >>

NextSelect == ApplySelect

SpecSelect == InitSelect /\ [][NextSelect]_vars

\* C16: selectAIPick returns null iff the pool is empty; the first player of
\* the pool when the team has no aiProfile; otherwise a player of the pool
\* whose totalScore is maximal, the earliest of the pool among those that
\* share the maximal score.
C16_SelectsBestScore ==
    fout # <<>> =>
        LET pool == fin[1].availablePlayers
            scores == fin[1].totalScores
            selected == fout[1]
        IN  /\ (selected = <<>>) <=> (Len(pool) = 0)
            /\ (Len(pool) > 0 /\ fin[1].team.aiProfile = NoProfile) =>
                  selected = << pool[1] >>
            /\ (Len(pool) > 0 /\ fin[1].team.aiProfile # NoProfile) =>
                  \E i \in DOMAIN pool :
                     /\ selected = << pool[i] >>
                     /\ \A j \in DOMAIN pool : scores[j] <= scores[i]
                     /\ \A j \in 1..(i - 1) : scores[j] < scores[i]

C16_Witness ==
    /\ fout # <<>>
    /\ fin[1].team.aiProfile # NoProfile
    /\ Len(fin[1].availablePlayers) = 3
    /\ fin[1].totalScores = << 0, 1, 1 >>
    /\ fout[1] = << fin[1].availablePlayers[2] >>

(***************************************************************************)
(* SpecValidate: validatePick applied to drawn DraftState values.  The     *)
(* function is exported and takes any DraftState, so the inputs range over *)
(* every status, pick indexes up to the end of the draft order, every      *)
(* sub-list of the pool and pick lists that need not match the pool.       *)
(***************************************************************************)
MaxValidatePicks == 1    \* longest pick list drawn for validatePick

\* the players of the pool whose index is in the set, in pool order
SubPool(indexes) ==
    SelectSeq(InitialPool,
              LAMBDA p : \E i \in indexes : InitialPool[i].id = p.id)

\* pick lists of the given length over the pool's players
PickLists(base, n) ==
    { [ i \in 1..n |->
          NewPick([ base EXCEPT !.currentPickIndex = i - 1 ],
                  [ id |-> base.draftOrder[i], isUser |-> FALSE ],
                  ids[i]) ] : ids \in [ 1..n -> PlayerIds ] }

ValidateInputs ==
    LET base == InitializeDraft(1, [ numTeams |-> MinTeams, numRounds |-> 1 ], InitialPool)
    IN  { [ base EXCEPT !.status = status,
                        !.currentPickIndex = index,
                        !.availablePlayers = SubPool(indexes),
                        !.picks = picks ] :
            status \in { "setup", "in_progress", "completed" },
            index \in 0..Len(base.draftOrder),
            indexes \in SUBSET (DOMAIN InitialPool),
            picks \in UNION { PickLists(base, n) : n \in 0..MaxValidatePicks } }

InitValidate ==
    /\ \E ds \in ValidateInputs, teamId \in TeamIdInputs, playerId \in PlayerIdInputs :
         fin = << [ draftState |-> ds, teamId |-> teamId, playerId |-> playerId ] >>
    /\ fout = <<>>
    /\ IdleEngine /\ IdleServer /\ IdleStore

ApplyValidate ==
    /\ fout' = << ValidatePick(fin[1].draftState, fin[1].teamId, fin[1].playerId) >>
    /\ UNCHANGED << fin, engineVars, serverVars, storeVars >>

NextValidate == ApplyValidate

SpecValidate == InitValidate /\ [][NextValidate]_vars

C9_FirstFailingCheck ==
    fout # <<>> =>
        LET ds == fin[1].draftState
            notInProgress == ds.status # "in_progress"
            wrongTurn ==
                \/ ds.currentPickIndex + 1 \notin DOMAIN ds.draftOrder
                \/ ds.draftOrder[ds.currentPickIndex + 1] # fin[1].teamId
            unavailable ==
                fin[1].playerId \notin { ds.availablePlayers[i].id : i \in DOMAIN ds.availablePlayers }
            alreadyDrafted ==
                fin[1].playerId \in { ds.picks[i].playerId : i \in DOMAIN ds.picks }
            v == fout[1]
        IN  /\ notInProgress => v.error = << ErrNotInProgress >>
            /\ (~ notInProgress /\ wrongTurn) => v.error = << ErrWrongTurn >>
            /\ (~ notInProgress /\ ~ wrongTurn /\ unavailable) =>
                  v.error = << ErrPlayerUnavailable >>
            /\ (~ notInProgress /\ ~ wrongTurn /\ ~ unavailable /\ alreadyDrafted) =>
                  v.error = << ErrAlreadyDrafted >>
            /\ v.valid <=> ~ (notInProgress \/ wrongTurn \/ unavailable \/ alreadyDrafted)
            /\ v.valid => v.error = <<>>

\* C9: validatePick checks NotInProgress, then WrongTurn, then
\* PlayerUnavailable, then AlreadyDrafted; it returns the error of the first
\* failing check, valid only when all four pass, and leaves the state as it was.
C9_ValidationPrecedence == [] C9_FirstFailingCheck /\ [][fin' = fin]_vars

C9_Witness ==
    /\ fout # <<>>
    /\ fout[1].error = << ErrAlreadyDrafted >>
    /\ fin[1].draftState.currentPickIndex = 1

(***************************************************************************)
(* SpecServer: the API routes over the drafts map.  Requests arrive with   *)
(* any draft id, team id and player id; an /api/ai-pick request that       *)
(* reaches the thinking delay stays suspended until it is resumed, and any *)
(* other handler may run in between.                                       *)
(***************************************************************************)
\* the league sizes drawn by the create requests
ServerSettingsSet ==
    { [ numTeams |-> MinTeams, numRounds |-> r ] : r \in 1..MaxRounds }

InitServer ==
    /\ drafts = EmptyMap
    /\ reqs = EmptyBag
    /\ response = NoResponse
    /\ IdleEngine /\ IdleStore /\ IdlePure

NextServer ==
    \/ \E settings \in ServerSettingsSet, userDraftPosition \in 0..(MinTeams + 1) :
          /\ CreateDraft(userDraftPosition, settings)
          /\ UNCHANGED << engineVars, storeVars, pureVars >>
    \/ \E request \in PickRequests :
          /\ PickRoute(request.draftId, request.teamId, request.playerId)
          /\ UNCHANGED << engineVars, storeVars, pureVars >>
    \/ \E request \in AIPickRequests :
          /\ AIPickBegin(request.draftId, request.teamId)
          /\ UNCHANGED << engineVars, storeVars, pureVars >>
    \/ \E req \in BagToSet(reqs) :
         \E totalScores \in ScoreLists(Len(req.draft.availablePlayers)) :
          /\ AIPickResume(req, totalScores)
          /\ UNCHANGED << engineVars, storeVars, pureVars >>

SpecServer == InitServer /\ [][NextServer]_vars

(***************************************************************************)
(* Properties of the routes, checked under SpecServer                      *)
(***************************************************************************)
\* the last handler step answered a pick request (either route)
PickAnswered(resp) == resp # NoResponse /\ resp[1].route \in { "pick", "ai-pick" }

\* the step answers the suspended request req
Answers(req) == BagIn(req, reqs) /\ reqs' = reqs (-) SetToBag({ req })

C3_AppliedToCurrentState ==
    \A req \in BagToSet(reqs) :
        (Answers(req) /\ response'[1].body.success) =>
            /\ req.draftId \in DOMAIN drafts
            /\ Len(drafts[req.draftId].picks) = req.draft.currentPickIndex

\* C3: of two pick requests for the same slot of a draft that are processed
\* concurrently only one succeeds: a suspended request that is answered with
\* success found its slot still open in the stored draft, so a request whose
\* slot has been filled in the meantime is rejected as stale.
C3_StaleRequestRejected == [][C3_AppliedToCurrentState]_vars

C5_InvalidPairFails ==
    \A request \in PickRequests :
        request.draftId \in DOMAIN drafts =>
            LET ds == drafts[request.draftId]
                validation == ValidatePick(ds, request.teamId, request.playerId)
            IN  ~ validation.valid =>
                   ExecutePick(ds, request.teamId, request.playerId)
                      = Failure(validation.error)

C5_RouteLeavesDraft ==
    /\ ( /\ PickAnswered(response')
         /\ response'[1].route = "pick"
         /\ response'[1].request.draftId \in DOMAIN drafts
         /\ response'[1].request.playerId # "" ) =>
           LET request == response'[1].request
               validation == ValidatePick(drafts[request.draftId],
                                          request.teamId, request.playerId)
           IN  ~ validation.valid =>
                  /\ response'[1].body = ErrorBody(400, validation.error[1])
                  /\ drafts' = drafts
    /\ (PickAnswered(response') /\ ~ response'[1].body.success) => drafts' = drafts

\* C5: executePick with a (team, player) pair that fails validatePick returns
\* success false with validatePick's error and no updatedState, and the pick
\* routes answer with that error and leave the stored draft as it was.
C5_ValidationPrecedesMutation == [] C5_InvalidPairFails /\ [][C5_RouteLeavesDraft]_vars

C5_Witness ==
    /\ response # NoResponse
    /\ response[1].route = "pick"
    /\ response[1].body = ErrorBody(400, ErrPlayerUnavailable)
    /\ DraftId \in DOMAIN drafts
    /\ Len(drafts[DraftId].picks) = 1

C10_SameGate ==
    \A req \in BagToSet(reqs) :
        Answers(req) =>
            LET onClock == CurrentTeamId(req.draft)
                body == response'[1].body
            IN  /\ (req.draft.status # "in_progress" \/ onClock # << req.teamId >>) =>
                     (~ body.success /\ drafts' = drafts)
                /\ ~ body.success => drafts' = drafts
                /\ body.success =>
                     LET stored == drafts'[req.draftId]
                         pick == stored.picks[Len(stored.picks)]
                     IN  /\ Len(stored.picks) = req.draft.currentPickIndex + 1
                         /\ pick.teamId = req.draft.draftOrder[req.draft.currentPickIndex + 1]
                         /\ pick.teamId = req.teamId
                         /\ Some(req.draft.availablePlayers, LAMBDA p : p.id = pick.playerId)

\* C10: an /api/ai-pick request for a team that is not on the clock in the
\* snapshot it read, or whose snapshot is not in progress, is rejected and
\* the stored draft stays as it was; a pick it stores is a pick of
\* draftOrder[currentPickIndex] of that snapshot.
C10_AIPicksPassValidation == [][C10_SameGate]_vars

C10_Witness ==
    /\ response # NoResponse
    /\ response[1].route = "ai-pick"
    /\ response[1].body = ErrorBody(400, ErrWrongTurn)
    /\ DraftId \in DOMAIN drafts
    /\ drafts[DraftId].status = "in_progress"

(***************************************************************************)
(* SpecStore: the client store.  A new store loads a draft with setDraft;  *)
(* then picks arrive as the server's executePick result (setDraft of the   *)
(* response) or through the store's own makePick, the pool is replaced by  *)
(* the fetched, ADP-sorted player list, and undoLastPick is called at any  *)
(* time.  makePick validates nothing, so the length of the pick list is    *)
(* capped by MaxStorePicks.                                                *)
(***************************************************************************)
MaxStorePicks == 2    \* longest pick list the store's makePick builds

StoreAction(op) == << [ op |-> op ] >>

InitStore ==
    /\ store = InitialState
    /\ page = <<>>
    /\ draftState = <<>> /\ call = NoCall /\ result = NoResult
    /\ IdleServer /\ IdlePure

\* loadDraft on mount: setDraft(data.data) with the created draft
StoreLoadDraft ==
    /\ store = InitialState
    /\ \E settings \in ServerSettingsSet, userDraftPosition \in 1..MinTeams :
         store' = SetDraft(store, InitializeDraft(userDraftPosition, settings, InitialPool))
    /\ call' = StoreAction("setDraft")

\* a pick route answered with executePick's updatedState: setDraft(data.data)
StoreServerPick(teamId, playerId) ==
    LET r == ExecutePick(store, teamId, playerId)
    IN  /\ r.success
        /\ store' = SetDraft(store, r.updatedState[1])
        /\ call' = StoreAction("executePick")

StoreMakePick(teamId, player) ==
    /\ Len(store.picks) < MaxStorePicks
    /\ store' = MakePick(store, teamId, player)
    /\ call' = StoreAction("makePick")

StoreUndoLastPick ==
    /\ store' = UndoLastPick(store)
    /\ call' = StoreAction("undoLastPick")

StoreUpdateAvailablePlayers(players) ==
    /\ store' = UpdateAvailablePlayers(store, players)
    /\ call' = StoreAction("updateAvailablePlayers")

NextStore ==
    \/ StoreLoadDraft /\ UNCHANGED << draftState, result, serverVars, page, pureVars >>
    \/ \E teamId \in { UserTeamId } \cup { AITeamId(i) : i \in 1..MinTeams },
          playerId \in PlayerIds :
          /\ StoreServerPick(teamId, playerId)
          /\ UNCHANGED << draftState, result, serverVars, page, pureVars >>
    \/ \E teamId \in { UserTeamId, UnknownTeamId } \cup { AITeamId(i) : i \in 1..MinTeams },
          i \in DOMAIN PlayerCatalog :
          /\ StoreMakePick(teamId, PlayerCatalog[i])
          /\ UNCHANGED << draftState, result, serverVars, page, pureVars >>
    \/ StoreUndoLastPick /\ UNCHANGED << draftState, result, serverVars, page, pureVars >>
    \/ /\ StoreUpdateAvailablePlayers(InitialPool)
       /\ UNCHANGED << draftState, result, serverVars, page, pureVars >>

SpecStore == InitStore /\ [][NextStore]_vars

IsSortedByAdp(players) ==
    \A i \in 1..(Len(players) - 1) : players[i].adp <= players[i + 1].adp

\* C17: availablePlayers is sorted by ADP ascending in every state reached
\* from an ADP-sorted pool by picks and undoLastPick.
C17_PoolSortedByAdp == IsSortedByAdp(store.availablePlayers)

C17_Witness ==
    /\ call = StoreAction("undoLastPick")
    /\ Len(store.picks) = 1
    /\ Len(store.availablePlayers) = NumPlayers + 1
    /\ store.availablePlayers[2] = store.availablePlayers[3]
    /\ store.availablePlayers[1].adp < store.availablePlayers[2].adp

C18_UndoStep ==
    call' = StoreAction("undoLastPick") =>
        /\ Len(store.picks) = 0 => store' = store
        /\ store'.currentPickIndex >= 0

\* C18: undoLastPick on a state with no picks changes nothing, and no
\* sequence of undoLastPick calls makes currentPickIndex negative.
C18_UndoOnEmptyIsNoOp == [] (store.currentPickIndex >= 0) /\ [][C18_UndoStep]_vars

C18_Witness ==
    /\ call = StoreAction("undoLastPick")
    /\ Len(store.picks) = 0
    /\ store.status = "in_progress"
    /\ Len(store.availablePlayers) = NumPlayers

(***************************************************************************)
(* executePick over a heap of JavaScript objects.  An object has an        *)
(* identity: a DraftState object refers to its teams, picks,               *)
(* availablePlayers and draftOrder arrays, the teams array to the Team     *)
(* objects and a Team to its roster array, so a write through one          *)
(* reference shows through every other.  A reference is the index of the   *)
(* object in its part of the heap.  Players, picks and the settings are    *)
(* never written by the engine and stay values.                            *)
(***************************************************************************)
\* a DraftState value laid out as objects: the roster arrays, then the teams,
\* picks, availablePlayers and draftOrder arrays
HeapOf(ds) ==
    LET n == Len(ds.teams)
    IN  [ arrays |-> [ i \in 1..n |-> ds.teams[i].roster ]
                       \o << [ i \in 1..n |-> i ], ds.picks,
                             ds.availablePlayers, ds.draftOrder >>,
          teams  |-> [ i \in 1..n |-> [ ds.teams[i] EXCEPT !.roster = i ] ],
          states |-> << [ ds EXCEPT !.teams = n + 1, !.picks = n + 2,
                                    !.availablePlayers = n + 3,
                                    !.draftOrder = n + 4 ] >> ]

\* the DraftState value read through the reference
Deref(heap, stateRef) ==
    LET st == heap.states[stateRef]
        teamRefs == heap.arrays[st.teams]
    IN  [ st EXCEPT
            !.teams = [ i \in DOMAIN teamRefs |->
                          [ heap.teams[teamRefs[i]] EXCEPT
                              !.roster = heap.arrays[heap.teams[teamRefs[i]].roster] ] ],
            !.picks = heap.arrays[st.picks],
            !.availablePlayers = heap.arrays[st.availablePlayers],
            !.draftOrder = heap.arrays[st.draftOrder] ]

\* the mutant: array.push(item), a write into the array itself
PushInPlace(heap, arrayRef, item) ==
    [ heap |-> [ heap EXCEPT !.arrays[arrayRef] = Append(@, item) ],
      ref  |-> arrayRef ]

\* [...array, item]: a new array
SpreadPush(heap, arrayRef, item) ==
    [ heap |-> [ heap EXCEPT !.arrays = Append(@, Append(heap.arrays[arrayRef], item)) ],
      ref  |-> Len(heap.arrays) + 1 ]

\* availablePlayers.filter((p) => p.id !== playerId): a new array
FilterOutPlayer(heap, arrayRef, playerId) ==
    [ heap |-> [ heap EXCEPT !.arrays =
                   Append(@, SelectSeq(heap.arrays[arrayRef], LAMBDA p : p.id # playerId)) ],
      ref  |-> Len(heap.arrays) + 1 ]

\* { ...t, roster }: a new Team object
SpreadTeam(heap, teamRef, rosterRef) ==
    [ heap |-> [ heap EXCEPT !.teams =
                   Append(@, [ heap.teams[teamRef] EXCEPT !.roster = rosterRef ]) ],
      ref  |-> Len(heap.teams) + 1 ]

\* teams.map(...): a new array that holds the new object for the picking
\* team and the same objects for the others
MapTeams(heap, teamsRef, teamId, player) ==
    LET teamRefs == heap.arrays[teamsRef]
        hit == { i \in DOMAIN teamRefs : heap.teams[teamRefs[i]].id = teamId }
    IN  IF hit = {}
        THEN [ heap |-> [ heap EXCEPT !.arrays = Append(@, teamRefs) ],
               ref  |-> Len(heap.arrays) + 1 ]
        ELSE LET k == CHOOSE i \in hit : TRUE
                 roster == SpreadPush(heap, heap.teams[teamRefs[k]].roster, player)
                 team == SpreadTeam(roster.heap, teamRefs[k], roster.ref)
             IN  [ heap |-> [ team.heap EXCEPT !.arrays =
                                Append(@, [ teamRefs EXCEPT ![k] = team.ref ]) ],
                   ref  |-> Len(team.heap.arrays) + 1 ]

\* executePick(draftState, teamId, playerId) on the heap: the heap after the
\* call and the returned object, updatedState being a reference
HeapExecutePick(heap, stateRef, teamId, playerId) ==
    LET ds == Deref(heap, stateRef)
        validation == ValidatePick(ds, teamId, playerId)
        player == Find(ds.availablePlayers, LAMBDA p : p.id = playerId)
        team == Find(ds.teams, LAMBDA t : t.id = teamId)
    IN  IF ~ validation.valid
        THEN [ heap |-> heap, result |-> Failure(validation.error) ]
        ELSE IF player = <<>>
        THEN [ heap |-> heap, result |-> Failure(<< ErrPlayerNotFound >>) ]
        ELSE IF team = <<>>
        THEN [ heap |-> heap, result |-> Failure(<< ErrTeamNotFound >>) ]
        ELSE
          LET st == heap.states[stateRef]
              newPick == NewPick(ds, team[1], playerId)
              updatedTeams == MapTeams(heap, st.teams, teamId, player[1])
              updatedAvailablePlayers ==
                  FilterOutPlayer(updatedTeams.heap, st.availablePlayers, playerId)
              updatedPicks == SpreadPush(updatedAvailablePlayers.heap, st.picks, newPick)
              h == updatedPicks.heap
              complete == IsDraftComplete([ ds EXCEPT !.picks = h.arrays[updatedPicks.ref] ])
              updatedState ==
                  [ st EXCEPT !.teams = updatedTeams.ref,
                              !.picks = updatedPicks.ref,
                              !.availablePlayers = updatedAvailablePlayers.ref,
                              !.currentPickIndex = NextPickIndex(ds),
                              !.status = IF complete THEN "completed" ELSE "in_progress" ]
          IN  [ heap   |-> [ h EXCEPT !.states = Append(@, updatedState) ],
                result |-> [ success |-> TRUE, error |-> <<>>,
                             updatedState |-> << Len(h.states) + 1 >> ] ]

(***************************************************************************)
(* SpecFrame: executePick called on a snapshot held in the heap.  The      *)
(* snapshots are the states a draft reaches by its first picks, the call   *)
(* is made with any team id and any player id.                             *)
(***************************************************************************)
MaxFramePicks == 2    \* picks made before the snapshot is taken

\* the state after the teams on the clock picked the listed players in turn
RECURSIVE AfterPicks(_, _)
AfterPicks(ds, playerIds) ==
    IF playerIds = <<>> THEN ds
    ELSE LET onClock == CurrentTeamId(ds)
             r == ExecutePick(ds, IF onClock = <<>> THEN UnknownTeamId ELSE onClock[1],
                              Head(playerIds))
         IN  AfterPicks(IF r.success THEN r.updatedState[1] ELSE ds, Tail(playerIds))

FrameInputs ==
    UNION { { AfterPicks(InitializeDraft(userDraftPosition, settings, InitialPool), ids) :
                userDraftPosition \in 1..settings.numTeams,
                ids \in UNION { [ 1..n -> PlayerIds ] : n \in 0..MaxFramePicks } } :
            settings \in SettingsSet }

InitFrame ==
    /\ \E ds \in FrameInputs, teamId \in TeamIdInputs, playerId \in PlayerIdInputs :
         fin = << [ heap |-> HeapOf(ds), draftState |-> 1,
                    teamId |-> teamId, playerId |-> playerId ] >>
    /\ fout = <<>>
    /\ IdleEngine /\ IdleServer /\ IdleStore

ApplyFrame ==
    /\ fout' = << HeapExecutePick(fin[1].heap, fin[1].draftState,
                                  fin[1].teamId, fin[1].playerId) >>
    /\ UNCHANGED << fin, engineVars, serverVars, storeVars >>

NextFrame == ApplyFrame

SpecFrame == InitFrame /\ [][NextFrame]_vars

\* the objects of the heap before are the same in the heap after
SameObjects(before, after) ==
    /\ SubSeq(after.arrays, 1, Len(before.arrays)) = before.arrays
    /\ SubSeq(after.teams, 1, Len(before.teams)) = before.teams
    /\ SubSeq(after.states, 1, Len(before.states)) = before.states

\* C13: executePick never writes to the DraftState it is given: after a
\* successful call the input snapshot, read through the caller's reference,
\* has its original picks, rosters, availablePlayers, currentPickIndex and
\* status, no object that existed before the call has changed, and the
\* updatedState is a new object with new teams, picks and availablePlayers
\* arrays that holds the state with the pick applied.
C13_InputNotMutated ==
    fout # <<>> =>
        LET before == fin[1].heap
            after == fout[1].heap
            input == Deref(before, fin[1].draftState)
        IN  /\ Deref(after, fin[1].draftState) = input
            /\ SameObjects(before, after)
            /\ fout[1].result.success =>
                 LET new == fout[1].result.updatedState[1]
                 IN  /\ new \notin DOMAIN before.states
                     /\ after.states[new].picks \notin DOMAIN before.arrays
                     /\ after.states[new].teams \notin DOMAIN before.arrays
                     /\ after.states[new].availablePlayers \notin DOMAIN before.arrays
                     /\ << Deref(after, new) >>
                          = ExecutePick(input, fin[1].teamId, fin[1].playerId).updatedState
            /\ ~ fout[1].result.success =>
                 fout[1].result = ExecutePick(input, fin[1].teamId, fin[1].playerId)

C13_Witness ==
    /\ fout # <<>>
    /\ fout[1].result.success
    /\ Len(Deref(fin[1].heap, 1).picks) = 2
    /\ Len(Deref(fout[1].heap, 1).picks) = 2
    /\ Len(Deref(fout[1].heap, fout[1].result.updatedState[1]).picks) = 3
    /\ Len(fout[1].heap.states) = 2

(***************************************************************************)
(* SpecLoop: the pick loop.  A draft is created by initializeDraft (with   *)
(* the profiles the create route assigns, or without) and every step gives *)
(* the team on the clock its turn: an AI team picks through selectAIPick   *)
(* and executePick, the user picks any player that is available.  The pool *)
(* is the list fetchNFLPlayers returned: up to 250 players from the API,   *)
(* or the 22 players of generateMockPlayers when the API call fails, which *)
(* is fewer than numTeams * numRounds for every league the home page       *)
(* offers.  Here the pool has NumPlayers players: enough for the smaller   *)
(* leagues drawn and too few for the largest.                              *)
(***************************************************************************)
ErrNoSelection == "AI could not select a player"

\* the Team object on the clock, if any
TeamOnClock(ds) ==
    IF CurrentTeamId(ds) = <<>> THEN <<>>
    ELSE Find(ds.teams, LAMBDA t : t.id = CurrentTeamId(ds)[1])

InitLoop ==
    /\ \E settings \in SettingsSet :
         \E userDraftPosition \in 1..settings.numTeams :
            LET ds == InitializeDraft(userDraftPosition, settings, InitialPool)
            IN  \/ draftState = ds
                \/ \E randomPool \in AssignRandomProfiles(settings.numTeams) :
                      draftState = AssignProfiles(ds, userDraftPosition, randomPool)
    /\ call = NoCall
    /\ result = NoResult
    /\ IdleServer /\ IdleStore /\ IdlePure

\* the turn of an AI team: selectAIPick, then executePick of the selection
LoopAITurn(totalScores) ==
    /\ draftState.status = "in_progress"
    /\ TeamOnClock(draftState) # <<>>
    /\ ~ TeamOnClock(draftState)[1].isUser
    /\ DOMAIN totalScores = DOMAIN draftState.availablePlayers
    /\ LET team == TeamOnClock(draftState)[1]
           selectedPlayer ==
               SelectAIPick(team, draftState, draftState.availablePlayers, totalScores)
       IN  IF selectedPlayer = <<>>
           THEN /\ call' = << [ teamId |-> team.id, playerId |-> "" ] >>
                /\ result' = << Failure(<< ErrNoSelection >>) >>
                /\ UNCHANGED draftState
           ELSE LET r == ExecutePick(draftState, team.id, selectedPlayer[1].id)
                IN  /\ call' = << [ teamId |-> team.id, playerId |-> selectedPlayer[1].id ] >>
                    /\ result' = << r >>
                    /\ draftState' = IF r.success THEN r.updatedState[1] ELSE draftState
    /\ UNCHANGED << serverVars, storeVars, pureVars >>

\* the turn of the user: executePick of an available player
LoopUserTurn(playerId) ==
    /\ draftState.status = "in_progress"
    /\ TeamOnClock(draftState) # <<>>
    /\ TeamOnClock(draftState)[1].isUser
    /\ Some(draftState.availablePlayers, LAMBDA p : p.id = playerId)
    /\ LET r == ExecutePick(draftState, UserTeamId, playerId)
       IN  /\ call' = << [ teamId |-> UserTeamId, playerId |-> playerId ] >>
           /\ result' = << r >>
           /\ draftState' = IF r.success THEN r.updatedState[1] ELSE draftState
    /\ UNCHANGED << serverVars, storeVars, pureVars >>

NextLoop ==
    \/ \E totalScores \in UNION { ScoreLists(n) : n \in 0..NumPlayers } :
          LoopAITurn(totalScores)
    \/ \E playerId \in PlayerIds : LoopUserTurn(playerId)

SpecLoop == InitLoop /\ [][NextLoop]_vars /\ WF_vars(NextLoop)

\* C11: when the team on the clock is always eventually given its turn, a
\* draft created by initializeDraft eventually has status completed and
\* numTeams * numRounds picks.
C11_DraftCompletes ==
    <> ( /\ draftState.status = "completed"
         /\ Len(draftState.picks) = TotalPicks(draftState) )

(***************************************************************************)
(* AI scoring: ai/decision-engine scorePlayer and the calculators it       *)
(* calls.  The code computes in floating point with factors that are       *)
(* decimal fractions; here every quantity is an integer in a named unit    *)
(* (tenths for ADP, hundredths for the profile parameters, thousandths for *)
(* the weighted sum), and Math.round is the rounding of an exact quotient. *)
(***************************************************************************)
NumScored == 5        \* size of the pool handed to scorePlayer

\* Math.round(n / d) for d > 0: the nearest integer, a half rounds up
RoundDiv(n, d) == (2 * n + d) \div (2 * d)

ScoredAdp == << 10, 30, 120, 250, 400 >>
ScoredPosition == << "RB", "RB", "WR", "RB", "WR" >>
ScoredTeam == << "KC", "DAL", "SF", "KC", "NYJ" >>
ScoredRisk == << 5, 8, 0, 3, 7 >>

\* a Player as fetchNFLPlayers builds it: tier is Math.floor(adp / 12) + 1,
\* riskScore 0 is a risk score of 0 or a player without one (the code tests
\* !player.riskScore for both), byeWeek 0 is no bye week
ScoredCatalog ==
    [ i \in 1..NumScored |->
        [ id        |-> PlayerId(i),
          position  |-> Cycle(ScoredPosition, i),
          team      |-> Cycle(ScoredTeam, i),
          byeWeek   |-> Cycle(ByeWeekCycle, i),
          adp       |-> Cycle(ScoredAdp, i) + 400 * ((i - 1) \div Len(ScoredAdp)),
          tier      |-> ((Cycle(ScoredAdp, i) + 400 * ((i - 1) \div Len(ScoredAdp))) \div 120) + 1,
          riskScore |-> Cycle(ScoredRisk, i) ] ]

Positions == << "QB", "RB", "WR", "TE", "K", "DEF" >>

\* a Record<Position, number> literal, its values listed in the order above
ByPosition(values) ==
    [ position \in Range(Positions) |->
        values[CHOOSE i \in DOMAIN Positions : Positions[i] = position] ]

\* AI_PROFILES, every parameter in hundredths
Profile(id) ==
    CASE id = "analyst" ->
           [ riskTolerance |-> 20, reachThreshold |-> 30, panicFactor |-> 30,
             byeWeekAwareness |-> 95, favoriteTeams |-> {},
             positionalPreferences |->
               ByPosition(<< 90, 110, 110, 95, 80, 85 >>) ]
      [] id = "gambler" ->
           [ riskTolerance |-> 95, reachThreshold |-> 85, panicFactor |-> 50,
             byeWeekAwareness |-> 10, favoriteTeams |-> {},
             positionalPreferences |->
               ByPosition(<< 80, 120, 115, 70, 50, 50 >>) ]
      [] id = "homer" ->
           [ riskTolerance |-> 60, reachThreshold |-> 70, panicFactor |-> 60,
             byeWeekAwareness |-> 50, favoriteTeams |-> { "KC", "SF", "PHI", "BUF" },
             positionalPreferences |->
               ByPosition(<< 100, 105, 105, 100, 90, 120 >>) ]
      [] id = "reactor" ->
           [ riskTolerance |-> 50, reachThreshold |-> 60, panicFactor |-> 95,
             byeWeekAwareness |-> 40, favoriteTeams |-> {},
             positionalPreferences |->
               ByPosition(<< 100, 100, 100, 100, 100, 100 >>) ]
      [] id = "valueHunter" ->
           [ riskTolerance |-> 40, reachThreshold |-> 15, panicFactor |-> 20,
             byeWeekAwareness |-> 70, favoriteTeams |-> {},
             positionalPreferences |->
               ByPosition(<< 70, 100, 100, 85, 60, 65 >>) ]
      [] id = "balanced" ->
           [ riskTolerance |-> 50, reachThreshold |-> 50, panicFactor |-> 50,
             byeWeekAwareness |-> 65, favoriteTeams |-> {},
             positionalPreferences |->
               ByPosition(<< 100, 100, 100, 100, 100, 100 >>) ]
      [] OTHER ->
           [ riskTolerance |-> 30, reachThreshold |-> 10, panicFactor |-> 10,
             byeWeekAwareness |-> 80, favoriteTeams |-> {},
             positionalPreferences |->
               ByPosition(<< 85, 110, 110, 90, 50, 50 >>) ]

(***************************************************************************)
(* ai/need-calculator                                                      *)
(***************************************************************************)
\* the rosterSlots of the settings the home page sends
RosterSlots ==
    ("QB" :> 1) @@ ("RB" :> 2) @@ ("WR" :> 2) @@ ("TE" :> 1) @@
    ("FLEX" :> 1) @@ ("K" :> 1) @@ ("DEF" :> 1) @@ ("BENCH" :> 6)

\* the number of players of the roster at each position
GetRosterComposition(team) ==
    [ position \in Range(Positions) |->
        Cardinality({ i \in DOMAIN team.roster : team.roster[i].position = position }) ]

\* Math.floor(BENCH * 0.1), Math.ceil(FLEX * 0.5), Math.floor(BENCH * 0.35)
GetTargetComposition(settings) ==
    LET rosterSlots == settings.rosterSlots
    IN  ("QB" :> rosterSlots["QB"] + (rosterSlots["BENCH"] \div 10)) @@
        ("RB" :> rosterSlots["RB"] + ((rosterSlots["FLEX"] + 1) \div 2)
                                  + ((rosterSlots["BENCH"] * 35) \div 100)) @@
        ("WR" :> rosterSlots["WR"] + ((rosterSlots["FLEX"] + 1) \div 2)
                                  + ((rosterSlots["BENCH"] * 35) \div 100)) @@
        ("TE" :> rosterSlots["TE"] + (rosterSlots["BENCH"] \div 10)) @@
        ("K" :> rosterSlots["K"]) @@
        ("DEF" :> rosterSlots["DEF"])

\* the need before the round adjustment, as the fraction << numerator,
\* denominator >>
BasicNeed(current, target) ==
    IF current = 0 THEN << 100, 1 >>
    ELSE IF current < target THEN << 80 * target - 30 * current, target >>
    ELSE IF current = target THEN << 40, 1 >>
    ELSE << Max(0, 30 - (current - target) * 10), 1 >>

\* the mutant: no damping in the early rounds
EarlyRoundFactorNone(position, currentRound) == 10

\* the factor of the early rounds, in tenths
EarlyRoundFactor(position, currentRound) ==
    IF currentRound <= 5 /\ position \in { "K", "DEF" } THEN 3
    ELSE IF currentRound <= 5 /\ position = "QB" THEN 7
    ELSE 10

CalculateTeamNeeds(team, settings, currentRound) ==
    LET rosterComposition == GetRosterComposition(team)
        targetComposition == GetTargetComposition(settings)
    IN  [ position \in Range(Positions) |->
            LET current == rosterComposition[position]
                target == targetComposition[position]
                need == BasicNeed(current, target)
            IN  IF currentRound >= 12 /\ position \in { "K", "DEF" } /\ current = 0
                THEN 100
                ELSE RoundDiv(need[1] * EarlyRoundFactor(position, currentRound),
                              need[2] * 10) ]

CalculatePositionNeed(team, position, settings, currentRound) ==
    CalculateTeamNeeds(team, settings, currentRound)[position]

\* needValue *= 1.3 and needValue *= 1.2 are factors in tenths
CalculateNeedValue(team, player, settings, currentRound) ==
    LET positionNeed ==
            CalculatePositionNeed(team, player.position, settings, currentRound)
        hasPosition == Some(team.roster, LAMBDA p : p.position = player.position)
        emptySlot == IF hasPosition THEN 10 ELSE 13
        topTier == IF positionNeed > 70 /\ player.tier <= 3 THEN 12 ELSE 10
    IN  Min(100, RoundDiv(positionNeed * emptySlot * topTier, 100))

(***************************************************************************)
(* Draft psychology: positional runs, scarcity, reaches, favourite teams   *)
(***************************************************************************)
\* the position of the player a pick names, looked up in availablePlayers
PickedPosition(pick, availablePlayers) ==
    LET player == Find(availablePlayers, LAMBDA p : p.id = pick.playerId)
    IN  IF player = <<>> THEN <<>> ELSE << player[1].position >>

\* picks.filter(pick => player?.position === position).length
CountAtPosition(picks, availablePlayers, position) ==
    Cardinality({ i \in DOMAIN picks :
                    PickedPosition(picks[i], availablePlayers) = << position >> })

\* the mutant: splice(-count) removes the elements it returns
ArrayAfterSplice(array, count) ==
    IF Len(array) <= count THEN <<>> ELSE SubSeq(array, 1, Len(array) - count)

\* array.slice(-count) leaves the array it is called on as it was
ArrayAfterSlice(array, count) == array

\* recentPicks after the slice(-5), slice(-3) and slice(-4) of the detection
RecentPicksAfterDetection(recentPicks) ==
    IF Len(recentPicks) < 2 THEN recentPicks
    ELSE ArrayAfterSlice(ArrayAfterSlice(ArrayAfterSlice(recentPicks, 5), 3), 4)

\* Object.entries lists the positions in the order of their first pick, and
\* only a strictly larger count replaces the position found so far
DetectPositionalRun(recentPicks, availablePlayers) ==
    IF Len(recentPicks) < 2 THEN [ position |-> <<>>, intensity |-> 0 ]
    ELSE
    LET last5 == SliceLast(recentPicks, 5)
        counted == { i \in DOMAIN last5 : PickedPosition(last5[i], availablePlayers) # <<>> }
        Count(i) == CountAtPosition(last5, availablePlayers,
                                    PickedPosition(last5[i], availablePlayers)[1])
        FirstOf(i) == \A j \in counted :
                         PickedPosition(last5[j], availablePlayers)
                           = PickedPosition(last5[i], availablePlayers) => i <= j
        entries == { i \in counted : FirstOf(i) }
    IN  IF entries = {} THEN [ position |-> <<>>, intensity |-> 0 ]
        ELSE
        LET best == CHOOSE i \in entries :
                       \A j \in entries :
                           \/ Count(j) < Count(i)
                           \/ Count(j) = Count(i) /\ i <= j
            runPosition == PickedPosition(last5[best], availablePlayers)[1]
            maxCount == Count(best)
            countLast3 == CountAtPosition(SliceLast(recentPicks, 3),
                                          availablePlayers, runPosition)
            countLast4 == CountAtPosition(SliceLast(recentPicks, 4),
                                          availablePlayers, runPosition)
        IN  [ position  |-> << runPosition >>,
              intensity |-> IF maxCount >= 4 THEN 100
                            ELSE IF countLast4 >= 4 THEN 90
                            ELSE IF countLast4 >= 3 THEN 60
                            ELSE IF countLast3 >= 3 THEN 70
                            ELSE IF countLast3 >= 2 THEN 40
                            ELSE 0 ]

\* Math.round(intensity * panicFactor * 0.8)
CalculatePanicBonus(player, runInfo, panicFactor) ==
    IF runInfo.position # << player.position >> THEN 0
    ELSE RoundDiv(runInfo.intensity * panicFactor * 8, 1000)

InitialCounts == ByPosition(<< 12, 24, 30, 10, 12, 12 >>)

\* the multiplier of the position, in tenths
ScarcityMultiplier(position) ==
    IF position \in { "RB", "WR" } THEN 12
    ELSE IF position = "TE" THEN 13
    ELSE 10

\* (1 - topTier / initial) * 70 + Math.min(1, totalDrafted / 180) * 30,
\* times the multiplier, over the common denominator initial * 180 * 10
CalculateScarcityIndex(position, availablePlayers, totalDrafted) ==
    LET positionPlayers == SelectSeq(availablePlayers, LAMBDA p : p.position = position)
        topTierPlayers == SelectSeq(positionPlayers, LAMBDA p : p.tier <= 3)
        initial == InitialCounts[position]
        scarcity == (initial - Len(topTierPlayers)) * 70 * 180
                    + Min(180, totalDrafted) * 30 * initial
    IN  Min(100, RoundDiv(scarcity * ScarcityMultiplier(position), initial * 180 * 10))

CalculateScarcityBonus(player, availablePlayers, totalDrafted) ==
    LET scarcity == CalculateScarcityIndex(player.position, availablePlayers, totalDrafted)
    IN  IF scarcity >= 80 THEN 30
        ELSE IF scarcity >= 60 THEN 20
        ELSE IF scarcity >= 40 THEN 10
        ELSE 0

\* Math.round(Math.pow(excess, 1.5) * 5) for excess = excessTenths / 10: the
\* k with (k - 0.5)^2 <= 25 * excess^3 < (k + 0.5)^2
RoundPow15Times5(excessTenths) ==
    LET cube == excessTenths * excessTenths * excessTenths
        limit == 5 * ((excessTenths \div 10) + 1) * ((excessTenths \div 10) + 1) + 1
    IN  CHOOSE k \in 0..limit :
           /\ k = 0 \/ 10 * (2 * k - 1) * (2 * k - 1) <= cube
           /\ cube < 10 * (2 * k + 1) * (2 * k + 1)

\* reachAmount and maxAllowedReach = 20 * reachThreshold, both in tenths
CalculateReachPenalty(player, currentPick, reachThreshold) ==
    LET reachAmount == 10 * currentPick - player.adp
        maxAllowedReach == 2 * reachThreshold
        excessReach == reachAmount - maxAllowedReach
    IN  IF reachAmount <= 0 THEN 0
        ELSE IF excessReach <= 0 THEN 0
        ELSE RoundPow15Times5(excessReach)

CalculateFavoriteTeamBonus(player, favoriteTeams) ==
    IF player.team \in favoriteTeams THEN 25 ELSE 0

(***************************************************************************)
(* Tier analysis                                                           *)
(***************************************************************************)
BaseThresholds == ByPosition(<< 15, 8, 10, 12, 20, 18 >>)

\* the mutant: the threshold does not widen with the tier
GetTierBreakThresholdFlat(position, tierNumber) == BaseThresholds[position] * 10

\* baseThresholds[position] * (1 + (tierNumber - 1) * 0.2), in tenths
GetTierBreakThreshold(position, tierNumber) ==
    BaseThresholds[position] * (10 + (tierNumber - 1) * 2)

\* the mutant: a gap equal to the threshold already breaks the tier
IsLastInTierInclusive(player, availablePlayers) ==
    LET samePosition == SelectSeq(availablePlayers, LAMBDA p : p.position = player.position)
        found == { i \in DOMAIN samePosition : samePosition[i].id = player.id }
    IN  IF found = {} THEN TRUE
        ELSE LET playerIndex == CHOOSE i \in found : \A j \in found : i <= j
             IN  IF playerIndex = Len(samePosition) THEN TRUE
                 ELSE samePosition[playerIndex + 1].adp - player.adp
                        >= GetTierBreakThreshold(player.position, player.tier)

IsLastInTier(player, availablePlayers) ==
    LET samePosition == SelectSeq(availablePlayers, LAMBDA p : p.position = player.position)
        found == { i \in DOMAIN samePosition : samePosition[i].id = player.id }
    IN  IF found = {} THEN TRUE
        ELSE LET playerIndex == CHOOSE i \in found : \A j \in found : i <= j
             IN  IF playerIndex = Len(samePosition) THEN TRUE
                 ELSE samePosition[playerIndex + 1].adp - player.adp
                        > GetTierBreakThreshold(player.position, player.tier)

CalculateTierUrgency(player, availablePlayers, currentPick) ==
    LET samePosition == SelectSeq(availablePlayers, LAMBDA p : p.position = player.position)
        sameTier == SelectSeq(samePosition, LAMBDA p : p.tier = player.tier)
        remainingInTier == Len(sameTier)
        base == IF remainingInTier = 1 THEN 90
                ELSE IF remainingInTier = 2 THEN 70
                ELSE IF remainingInTier = 3 THEN 50
                ELSE Max(0, 40 - remainingInTier * 5)
        nextTierPlayers == SelectSeq(samePosition, LAMBDA p : p.tier = player.tier + 1)
        dropoff == IF Len(nextTierPlayers) > 0 /\ nextTierPlayers[1].adp - player.adp > 200
                   THEN 15 ELSE 0
        value == IF player.adp > 10 * currentPick + 100 /\ remainingInTier <= 2
                 THEN 10 ELSE 0
    IN  Min(100, base + dropoff + value)

(***************************************************************************)
(* ai/decision-engine scorePlayer                                          *)
(***************************************************************************)
\* team.byeWeekCount[player.byeWeek] || 0
ByeCount(team, byeWeek) ==
    IF byeWeek \in DOMAIN team.byeWeekCount THEN team.byeWeekCount[byeWeek] ELSE 0

\* the mutant: the thresholds one player later
CalculateByeWeekPenaltyLate(team, player, byeWeekAwareness) ==
    IF player.byeWeek = 0 \/ byeWeekAwareness = 0 THEN 0
    ELSE LET byeCount == ByeCount(team, player.byeWeek)
             penalty == IF byeCount >= 4 THEN -40
                        ELSE IF byeCount = 3 THEN -25
                        ELSE IF byeCount = 2 THEN -10
                        ELSE 0
         IN  RoundDiv(penalty * byeWeekAwareness, 100)

\* Math.round(penalty * byeWeekAwareness)
CalculateByeWeekPenalty(team, player, byeWeekAwareness) ==
    IF player.byeWeek = 0 \/ byeWeekAwareness = 0 THEN 0
    ELSE LET byeCount == ByeCount(team, player.byeWeek)
             penalty == IF byeCount >= 3 THEN -40
                        ELSE IF byeCount = 2 THEN -25
                        ELSE IF byeCount = 1 THEN -10
                        ELSE 0
         IN  RoundDiv(penalty * byeWeekAwareness, 100)

CalculateRiskAdjustment(player, riskTolerance) ==
    IF player.riskScore = 0 THEN 0
    ELSE LET riskDiff == player.riskScore - 5
         IN  IF riskTolerance > 70 THEN riskDiff * 3
             ELSE IF riskTolerance < 30 THEN (- riskDiff) * 4
             ELSE 0

\* the six factors before the weights are applied: baseScore and valueScore
\* in tenths, the others in units
Factors(player, team, ds, currentRound, currentPick, recentPicks, availablePlayers) ==
    LET aiProfile == Profile(team.aiProfile)
        runInfo == DetectPositionalRun(recentPicks, availablePlayers)
    IN  [ baseScore |-> Max(0, 2000 - player.adp),
          needScore |-> CalculateNeedValue(team, player, ds.settings, currentRound),
          valueScore |-> (player.adp - 10 * currentPick) * 2,
          runScore |-> CalculatePanicBonus(player, runInfo, aiProfile.panicFactor),
          tierScore |-> IF IsLastInTier(player, availablePlayers) THEN 50
                        ELSE CalculateTierUrgency(player, availablePlayers, currentPick),
          byeScore |-> CalculateByeWeekPenalty(team, player, aiProfile.byeWeekAwareness),
          positionalMultiplier |-> aiProfile.positionalPreferences[player.position] ]

\* the weighted total before the noise, in thousandths
WeightedTotal(player, team, ds, currentPick, availablePlayers, f) ==
    LET aiProfile == Profile(team.aiProfile)
    IN  f.baseScore * f.positionalMultiplier
        + f.needScore * 300
        + f.valueScore * 25
        + f.runScore * 200
        + f.tierScore * 150
        + f.byeScore * 100
        + 1000 * ( CalculateScarcityBonus(player, availablePlayers, Len(ds.picks))
                   + CalculateFavoriteTeamBonus(player, aiProfile.favoriteTeams)
                   + CalculateRiskAdjustment(player, aiProfile.riskTolerance)
                   - CalculateReachPenalty(player, currentPick, aiProfile.reachThreshold) )

\* (Math.random() - 0.5) * 0.1 in thousandths, for a Math.random() result
\* given in hundredths
Randomness(random) == random - 50

\* scorePlayer, random being the value its Math.random() call returns
ScorePlayer(player, team, ds, currentRound, currentPick, recentPicks, availablePlayers, random) ==
    LET f == Factors(player, team, ds, currentRound, currentPick,
                     recentPicks, availablePlayers)
        totalScore == WeightedTotal(player, team, ds, currentPick,
                                    availablePlayers, f)
    IN  [ playerId   |-> player.id,
          totalScore |-> RoundDiv(totalScore * (1000 + Randomness(random)), 1000000),
          breakdown  |->
            [ baseScore  |-> RoundDiv(f.baseScore * f.positionalMultiplier, 1000),
              needScore  |-> RoundDiv(f.needScore * 3, 10),
              valueScore |-> RoundDiv(f.valueScore * 25, 1000),
              runScore   |-> RoundDiv(f.runScore * 2, 10),
              tierScore  |-> RoundDiv(f.tierScore * 15, 100),
              byeScore   |-> RoundDiv(f.byeScore, 10) ] ]

(***************************************************************************)
(* SpecScore: scorePlayer called repeatedly on the same arguments, each    *)
(* call with its own Math.random() result.  fin holds the argument objects *)
(* as the calls leave them, fout the history of the calls.                 *)
(***************************************************************************)
MaxScoreCalls == 2    \* calls of scorePlayer made on the same arguments

\* Math.random() results, in hundredths; 50 makes the noise term 0
RandomValues == { 0, 50, 99 }

ScoredProfiles == { "analyst", "gambler", "homer", "reactor" }

ScoredPools ==
    { ScoredCatalog, SelectSeq(ScoredCatalog, LAMBDA p : p.id # PlayerId(2)) }

\* a DraftPick, reduced to the fields the scoring reads
PicksOf(indexes) ==
    [ i \in DOMAIN indexes |->
        [ playerId |-> PlayerId(indexes[i]), pickNumber |-> i ] ]

ScoredPicks ==
    { PicksOf(<<>>), PicksOf(<< 1, 2 >>), PicksOf(<< 3, 1, 2 >>),
      PicksOf(<< 1, 3, 4, 2 >>) }

ScoredTeams ==
    { [ id |-> AITeamId(2), isUser |-> FALSE, aiProfile |-> profile,
        roster |-> roster, byeWeekCount |-> byeWeekCount,
        draftPosition |-> 2 ] :
        profile \in ScoredProfiles,
        roster \in { <<>>, << ScoredCatalog[1] >> },
        byeWeekCount \in { <<>>, (5 :> 1) @@ (7 :> 3), (5 :> 2) @@ (7 :> 4) } }

\* << currentRound, currentPick >>
ScoredTurns == { << 1, 1 >>, << 1, 3 >>, << 6, 8 >>, << 12, 12 >> }

ScoreInputs ==
    { [ player |-> player, team |-> team,
        draftState |-> [ picks |-> picks,
                         settings |-> [ numTeams |-> 12, numRounds |-> 15,
                                        rosterSlots |-> RosterSlots ] ],
        currentRound |-> turn[1], currentPick |-> turn[2],
        recentPicks |-> picks, availablePlayers |-> availablePlayers ] :
        player \in Range(ScoredCatalog), team \in ScoredTeams,
        picks \in ScoredPicks, turn \in ScoredTurns,
        availablePlayers \in ScoredPools }

InitScore ==
    /\ \E input \in ScoreInputs : fin = << input >>
    /\ fout = <<>>
    /\ IdleEngine /\ IdleServer /\ IdleStore

\* one call: the value returned, and the arguments as the call leaves them
ScoreCall(random) ==
    /\ Len(fout) < MaxScoreCalls
    /\ LET a == fin[1]
       IN  /\ fout' = Append(fout,
                        [ randomness |-> Randomness(random),
                          score |-> ScorePlayer(a.player, a.team, a.draftState,
                                                a.currentRound, a.currentPick,
                                                a.recentPicks, a.availablePlayers,
                                                random) ])
           /\ fin' = << [ a EXCEPT !.recentPicks = RecentPicksAfterDetection(@) ] >>
    /\ UNCHANGED << engineVars, serverVars, storeVars >>

NextScore == \E random \in RandomValues : ScoreCall(random)

SpecScore == InitScore /\ [][NextScore]_vars

EffectDeps(state, version) ==
    << IF TeamOnClock(state) = <<>> THEN 0 ELSE version, state.status >>

InitPage ==
    /\ \E settings \in SettingsSet :
         \E userDraftPosition \in 1..settings.numTeams :
            drafts = MapSet(EmptyMap, DraftId,
                            AssignProfiles(
                                InitializeDraft(userDraftPosition, settings, InitialPool),
                                userDraftPosition, CycledProfiles(settings.numTeams)))
    /\ reqs = EmptyBag
    /\ response = NoResponse
    /\ store = InitialState
    /\ page = [ loaded |-> FALSE, aiPicking |-> FALSE, queued |-> <<>>,
                storeChanged |-> FALSE, version |-> 0,
                deps |-> EffectDeps(InitialState, 0) ]
    /\ IdleEngine /\ IdlePure

\* loadDraft on mount: GET /api/draft/[id], then setDraft(data.data)
PageLoadDraft ==
    /\ ~ page.loaded
    /\ store' = SetDraft(store, drafts[DraftId])
    /\ page' = [ page EXCEPT !.loaded = TRUE, !.storeChanged = TRUE,
                             !.version = @ + 1 ]
    /\ UNCHANGED << engineVars, serverVars, pureVars >>

\* one render and its effects.  batched tells whether a queued setAiPicking
\* is rendered together with a pending store change.  The effect runs when
\* its dependencies differ from those of its last run, and calls
\* triggerAIPick under its guard: setAiPicking(true) and the POST, which the
\* route handles up to its thinking delay.
PageRender(batched) ==
    /\ page.storeChanged \/ page.queued # <<>>
    /\ batched \/ (page.storeChanged /\ page.queued # <<>>)
    /\ LET applied == page.queued # <<>> /\ batched
           aiPicking == IF applied THEN page.queued[1] ELSE page.aiPicking
           currentTeam == TeamOnClock(store)
           deps == EffectDeps(store, page.version)
           rendered == [ page EXCEPT !.aiPicking = aiPicking,
                                     !.queued = IF applied THEN <<>> ELSE @,
                                     !.storeChanged = FALSE,
                                     !.deps = deps ]
       IN  IF /\ deps # page.deps
              /\ store.status = "in_progress"
              /\ currentTeam # <<>>
              /\ ~ currentTeam[1].isUser
              /\ ~ aiPicking
           THEN /\ page' = [ rendered EXCEPT !.queued = << TRUE >> ]
                /\ AIPickBegin(DraftId, currentTeam[1].id)
                /\ UNCHANGED << store, engineVars, pureVars >>
           ELSE /\ page' = rendered
                /\ UNCHANGED << store, engineVars, serverVars, pureVars >>

\* the response of /api/ai-pick arrives, after the render of
\* setAiPicking(true): setDraft(data.data.draft) on success, and
\* setAiPicking(false) in every case
PageAIPickResponse(req, totalScores) ==
    /\ page.queued = <<>>
    /\ ~ page.storeChanged
    /\ AIPickResume(req, totalScores)
    /\ IF response'[1].body.success
       THEN /\ store' = SetDraft(store, drafts'[DraftId])
            /\ page' = [ page EXCEPT !.storeChanged = TRUE, !.version = @ + 1,
                                     !.queued = << FALSE >> ]
       ELSE /\ store' = store
            /\ page' = [ page EXCEPT !.queued = << FALSE >> ]
    /\ UNCHANGED << engineVars, pureVars >>

\* handleUserPick: the POST to /api/draft/pick, setDraft(data.data) on success
PageUserPick(playerId) ==
    /\ ~ page.storeChanged
    /\ TeamOnClock(store) # <<>>
    /\ TeamOnClock(store)[1].isUser
    /\ Some(store.availablePlayers, LAMBDA p : p.id = playerId)
    /\ PickRoute(DraftId, TeamOnClock(store)[1].id, playerId)
    /\ IF response'[1].body.success
       THEN /\ store' = SetDraft(store, drafts'[DraftId])
            /\ page' = [ page EXCEPT !.storeChanged = TRUE, !.version = @ + 1 ]
       ELSE UNCHANGED << store, page >>
    /\ UNCHANGED << engineVars, pureVars >>

NextPage ==
    \/ PageLoadDraft
    \/ \E batched \in BOOLEAN : PageRender(batched)
    \/ \E req \in BagToSet(reqs) :
          \E totalScores \in ScoreLists(Len(req.draft.availablePlayers)) :
             PageAIPickResponse(req, totalScores)
    \/ \E playerId \in PlayerIds : PageUserPick(playerId)

SpecPage == InitPage /\ [][NextPage]_vars /\ WF_vars(NextPage)

\* the draft shown is in progress with an AI team on the clock
AITurn ==
    /\ store.status = "in_progress"
    /\ TeamOnClock(store) # <<>>
    /\ ~ TeamOnClock(store)[1].isUser

\* an /api/ai-pick request of the page for the team on the clock is under way
AIPickRequested ==
    \E req \in BagToSet(reqs) :
        TeamOnClock(store) # <<>> /\ req.teamId = TeamOnClock(store)[1].id

\* C21: whenever the draft shown is in progress with an AI team on the
\* clock, an AI pick request for that team is eventually issued.
C21_AIPickIssued == AITurn ~> AIPickRequested

(***************************************************************************)
(* The stored pick list, checked under SpecServer                          *)
(***************************************************************************)
C22_AppendStep ==
    \A draftId \in DOMAIN drafts :
        (draftId \in DOMAIN drafts' /\ drafts'[draftId] # drafts[draftId]) =>
            LET before == drafts[draftId].picks
                after == drafts'[draftId].picks
            IN  /\ Len(after) = Len(before) + 1
                /\ SubSeq(after, 1, Len(before)) = before

\* C22: under every interleaving of /api/draft/pick and /api/ai-pick requests
\* each newly stored snapshot of a draft has the previously stored picks
\* plus one, so no stored pick is ever lost.
C22_PicksAppendOnly == [][C22_AppendStep]_vars

(***************************************************************************)
(* Run detection in the draft flow, checked under Spec                     *)
(***************************************************************************)
\* the position of the player a pick took, from the catalog
CatalogPosition(pick) ==
    PlayerCatalog[CHOOSE i \in DOMAIN PlayerCatalog :
                     PlayerCatalog[i].id = pick.playerId].position

\* positions that at least 2 of the last 3 picks took
RunPositions(picks) ==
    LET last3 == SliceLast(picks, 3)
    IN  { position \in Range(Positions) :
            Cardinality({ i \in DOMAIN last3 : CatalogPosition(last3[i]) = position }) >= 2 }

\* C23: in a state reached by executePick in which at least 2 of the last 3
\* picks took players of one position, detectPositionalRun on the last 5
\* picks and the state's availablePlayers reports that position with an
\* intensity of at least 40.
C23_RunDetectedInFlow ==
    \A position \in RunPositions(draftState.picks) :
        LET runInfo == DetectPositionalRun(SliceLast(draftState.picks, 5),
                                           draftState.availablePlayers)
        IN  /\ runInfo.position = << position >>
            /\ runInfo.intensity >= 40

(***************************************************************************)
(* The bye-week counts of the teams, checked under Spec                    *)
(***************************************************************************)
\* C24: in every state reached from initializeDraft by executePick, the
\* count team.byeWeekCount[w] that the bye-week penalty reads is the number
\* of players on the team's roster whose bye week is w.
C24_ByeWeekCountMatchesRoster ==
    \A i \in DOMAIN draftState.teams :
        \A w \in Range(ByeWeekCycle) \ { 0 } :
            LET team == draftState.teams[i]
            IN  ByeCount(team, w)
                  = Cardinality({ k \in DOMAIN team.roster : team.roster[k].byeWeek = w })

(***************************************************************************)
(* SpecStoreAll: every action of the draft store, called in any order on   *)
(* a new store.  nextPick has no guard, so the pick index it builds is     *)
(* capped by MaxPickIndex.                                                 *)
(***************************************************************************)
MaxPickIndex == 3     \* largest currentPickIndex that nextPick builds

\* set({ currentPickIndex: state.currentPickIndex + 1 })
NextPick(state) == [ state EXCEPT !.currentPickIndex = state.currentPickIndex + 1 ]

\* set({ ...initialState })
Reset(state) == InitialState

StoreNextPick ==
    /\ store.currentPickIndex < MaxPickIndex
    /\ store' = NextPick(store)
    /\ call' = StoreAction("nextPick")

StoreReset ==
    /\ store' = Reset(store)
    /\ call' = StoreAction("reset")

NextStoreAll ==
    \/ NextStore
    \/ StoreNextPick /\ UNCHANGED << draftState, result, serverVars, page, pureVars >>
    \/ StoreReset /\ UNCHANGED << draftState, result, serverVars, page, pureVars >>

SpecStoreAll == InitStore /\ [][NextStoreAll]_vars

\* C25: after any sequence of the store's actions currentPickIndex equals
\* the number of picks.
C25_PickIndexIsPickCount == store.currentPickIndex = Len(store.picks)

(***************************************************************************)
(* SpecRun: detectPositionalRun on any list of recent picks whose players  *)
(* are all in the pool it is given, so that every position is resolved.    *)
(***************************************************************************)
MaxRecentPicks == 5   \* longest list of recent picks drawn

InitRun ==
    /\ \E n \in 0..MaxRecentPicks :
         \E indexes \in [ 1..n -> DOMAIN ScoredCatalog ] :
            fin = << [ recentPicks |-> PicksOf(indexes),
                       availablePlayers |-> ScoredCatalog ] >>
    /\ fout = <<>>
    /\ IdleEngine /\ IdleServer /\ IdleStore

ApplyRun ==
    /\ fout = <<>>
    /\ fout' = << DetectPositionalRun(fin[1].recentPicks, fin[1].availablePlayers) >>
    /\ UNCHANGED << fin, engineVars, serverVars, storeVars >>

NextRun == ApplyRun

SpecRun == InitRun /\ [][NextRun]_vars

\* the last three picks are all at the reported position and fewer than 4
\* of the last 5 picks are at it
ThreeOfLastThree ==
    /\ fout # <<>>
    /\ fout[1].position # <<>>
    /\ Len(fin[1].recentPicks) >= 3
    /\ CountAtPosition(SliceLast(fin[1].recentPicks, 3), fin[1].availablePlayers,
                       fout[1].position[1]) = 3
    /\ CountAtPosition(SliceLast(fin[1].recentPicks, 5), fin[1].availablePlayers,
                       fout[1].position[1]) < 4

\* C26: when the last three picks are all at the plurality position and
\* fewer than 4 of the last 5 picks are at it, detectPositionalRun reports
\* the intensity 70.
C26_ThreeOfThreeIs70 == ThreeOfLastThree => fout[1].intensity = 70

(***************************************************************************)
(* The factors of scorePlayer, checked under SpecScore                     *)
(***************************************************************************)
\* the factors of the call whose arguments are in fin
FactorsOfCall ==
    Factors(fin[1].player, fin[1].team, fin[1].draftState, fin[1].currentRound,
            fin[1].currentPick, fin[1].recentPicks, fin[1].availablePlayers)

\* C27: the value component of scorePlayer is positive when the candidate's
\* ADP is lower than the current pick (a value pick) and negative when it is
\* higher (a reach).
C27_ValueSign ==
    fout # <<>> =>
        /\ fin[1].player.adp < 10 * fin[1].currentPick => FactorsOfCall.valueScore > 0
        /\ fin[1].player.adp > 10 * fin[1].currentPick => FactorsOfCall.valueScore < 0

(***************************************************************************)
(* SpecScarcity: calculateScarcityIndex on pools of one position holding   *)
(* any number of tier 1-3 players up to MaxTopTier, which is more than the *)
(* reference count of the tight ends.                                      *)
(***************************************************************************)
MaxTopTier == 11      \* largest number of tier 1-3 players in a drawn pool

\* a pool of topTier players of tiers 1 to 3 followed by late players of
\* tier 4, all at one position, sorted by ADP
ScarcityPool(position, topTier, late) ==
    [ i \in 1..(topTier + late) |->
        [ id        |-> PlayerId(i),
          position  |-> position,
          team      |-> Cycle(ScoredTeam, i),
          byeWeek   |-> Cycle(ByeWeekCycle, i),
          adp       |-> IF i <= topTier THEN 10 * i ELSE 360 + 10 * i,
          tier      |-> IF i <= topTier THEN ((10 * i) \div 120) + 1 ELSE 4,
          riskScore |-> Cycle(ScoredRisk, i) ] ]

TotalDraftedSet == { 0, 90, 180, 200 }

InitScarcity ==
    /\ \E position \in Range(Positions), poolPosition \in Range(Positions),
          topTier \in 0..MaxTopTier, late \in 0..1, totalDrafted \in TotalDraftedSet :
         fin = << [ position |-> position,
                    availablePlayers |-> ScarcityPool(poolPosition, topTier, late),
                    totalDrafted |-> totalDrafted ] >>
    /\ fout = <<>>
    /\ IdleEngine /\ IdleServer /\ IdleStore

ApplyScarcity ==
    /\ fout = <<>>
    /\ fout' = << CalculateScarcityIndex(fin[1].position, fin[1].availablePlayers,
                                         fin[1].totalDrafted) >>
    /\ UNCHANGED << fin, engineVars, serverVars, storeVars >>

NextScarcity == ApplyScarcity

SpecScarcity == InitScarcity /\ [][NextScarcity]_vars

\* C28: calculateScarcityIndex returns a value from 0 to 100 for every
\* position, pool and totalDrafted, also when the pool holds more tier 1-3
\* players of the position than the reference count.
C28_ScarcityInRange == fout # <<>> => (fout[1] >= 0 /\ fout[1] <= 100)

\* the penalty before the scaling, for each count of the original statement
PenaltyFromOne(byeCount) ==
    IF byeCount >= 4 THEN -40
    ELSE IF byeCount = 3 THEN -25
    ELSE IF byeCount = 2 THEN -10
    ELSE 0

\* the penalty before the scaling, counted from no player
PenaltyFromZero(byeCount) ==
    IF byeCount >= 3 THEN -40
    ELSE IF byeCount = 2 THEN -25
    ELSE IF byeCount = 1 THEN -10
    ELSE 0

\* the count team.byeWeekCount holds for the bye week of the scored player
ByeCountOfCall == ByeCount(fin[1].team, fin[1].player.byeWeek)

\* the scored player has a bye week and the call was made
ByePenaltyApplies == fout # <<>> /\ fin[1].player.byeWeek # 0

\* C29 as stated: the bye-week penalty is 0, -10, -25 or -40 for 1, 2, 3 or
\* at least 4 rostered players sharing the candidate's bye week, multiplied
\* by byeWeekAwareness.
C29_PenaltyFromOnePlayer ==
    (ByePenaltyApplies /\ ByeCountOfCall >= 1) =>
        FactorsOfCall.byeScore
          = RoundDiv(PenaltyFromOne(ByeCountOfCall)
                       * Profile(fin[1].team.aiProfile).byeWeekAwareness, 100)

\* C29, amended: the bye-week penalty is 0, -10, -25 or -40 when the count
\* team.byeWeekCount holds for the candidate's bye week is 0, 1, 2 or at
\* least 3, multiplied by byeWeekAwareness and rounded to the nearest integer.
C29_PenaltyFromNoPlayer ==
    ByePenaltyApplies =>
        FactorsOfCall.byeScore
          = RoundDiv(PenaltyFromZero(ByeCountOfCall)
                       * Profile(fin[1].team.aiProfile).byeWeekAwareness, 100)

\* a candidate scored for a team that counts two players on its bye week
C29_Witness ==
    /\ ByePenaltyApplies
    /\ ByeCountOfCall = 2
    /\ FactorsOfCall.byeScore = -24

\* C30: for every risk score from 0 to 10, 0 included, the risk adjustment
\* is (risk - 5) * 3 for a profile with riskTolerance above 0.7,
\* -(risk - 5) * 4 for one with riskTolerance below 0.3, and 0 otherwise.
C30_RiskAdjustment ==
    fout # <<>> =>
        LET risk == fin[1].player.riskScore
            riskTolerance == Profile(fin[1].team.aiProfile).riskTolerance
        IN  CalculateRiskAdjustment(fin[1].player, riskTolerance)
              = IF riskTolerance > 70 THEN (risk - 5) * 3
                ELSE IF riskTolerance < 30 THEN - ((risk - 5) * 4)
                ELSE 0

(***************************************************************************)
(* Properties of selectAIPick followed by executePick, checked under       *)
(* SpecLoop                                                                *)
(***************************************************************************)
\* C31: in every in-progress state with a non-empty pool, whatever the
\* scores of the players are, the player selectAIPick returns for the team
\* on the clock is accepted by executePick on that same state.
C31_SelectionAccepted ==
    ( /\ draftState.status = "in_progress"
      /\ Len(draftState.availablePlayers) > 0 )
    => /\ TeamOnClock(draftState) # <<>>
       /\ \A totalScores \in ScoreLists(Len(draftState.availablePlayers)) :
            LET team == TeamOnClock(draftState)[1]
                selectedPlayer ==
                    SelectAIPick(team, draftState, draftState.availablePlayers, totalScores)
            IN  /\ selectedPlayer # <<>>
                /\ ExecutePick(draftState, team.id, selectedPlayer[1].id).success

\* an AI team with a profile is on the clock after two picks, the pool is
\* not empty and the last pick was made by an AI team through selectAIPick
C31_Witness ==
    /\ draftState.status = "in_progress"
    /\ Len(draftState.picks) >= 2
    /\ Len(draftState.availablePlayers) > 0
    /\ TeamOnClock(draftState) # <<>>
    /\ TeamOnClock(draftState)[1].aiProfile # NoProfile
    /\ draftState.picks[Len(draftState.picks)].isAIPick
    /\ result # NoResult
    /\ result[1].success

(***************************************************************************)
(* Properties of the stored snapshots, checked under SpecServer            *)
(***************************************************************************)
\* the invariants of one DraftState over the players the create route fetched
SnapshotConsistent(ds) ==
    /\ ds.currentPickIndex = Len(ds.picks)
    /\ \A i \in DOMAIN ds.picks :
          /\ i \in DOMAIN ds.draftOrder
          /\ ds.picks[i].teamId = ds.draftOrder[i]
    /\ \A i \in DOMAIN ServerPool :
          Occurrences(ds.availablePlayers, ServerPool[i].id)
            + RosterOccurrences(ds, ServerPool[i].id) = 1

\* C32: under every interleaving of /api/draft/pick and /api/ai-pick
\* requests, each snapshot stored in the drafts map satisfies on its own
\* currentPickIndex = picks.length, picks[i].teamId = draftOrder[i] for
\* every i, and every player is in exactly one of availablePlayers or one
\* roster.
C32_StoredSnapshotsConsistent ==
    \A draftId \in DOMAIN drafts : SnapshotConsistent(drafts[draftId])

\* an /api/ai-pick request that read an older snapshot has just stored its
\* result over a longer pick list: a request still suspended holds a
\* snapshot with more picks than the stored one
C32_Witness ==
    /\ response # NoResponse
    /\ response[1].route = "ai-pick"
    /\ response[1].body.success
    /\ DraftId \in DOMAIN drafts
    /\ \E req \in BagToSet(reqs) :
          req.draft.currentPickIndex > Len(drafts[DraftId].picks)

(***************************************************************************)
(* SpecAnyPosition: the engine as in Spec, for every user position that    *)
(* initializeDraft accepts.  initializeDraft checks none of its arguments  *)
(* and the create route lets every number from 1 to numTeams through, also *)
(* one that is no whole number; the positions 0 and numTeams + 1 stand for *)
(* a position that is none of 1..numTeams.                                 *)
(***************************************************************************)
InitAnyPosition ==
    /\ \E settings \in SettingsSet :
         \E userDraftPosition \in 0..(settings.numTeams + 1) :
            draftState = InitializeDraft(userDraftPosition, settings, InitialPool)
    /\ call = NoCall
    /\ result = NoResult
    /\ IdleServer /\ IdleStore /\ IdlePure

SpecAnyPosition == InitAnyPosition /\ [][Next]_vars

\* number of the first currentPickIndex entries of draftOrder that name the team
TurnsTaken(ds, teamId) ==
    Cardinality({ i \in 1..ds.currentPickIndex :
                    i \in DOMAIN ds.draftOrder /\ ds.draftOrder[i] = teamId })

C33_RosterIsTurnsTaken ==
    \A t \in DOMAIN draftState.teams :
        Len(draftState.teams[t].roster) = TurnsTaken(draftState, draftState.teams[t].id)

C33_RostersBalanced ==
    \A t, u \in DOMAIN draftState.teams :
        Len(draftState.teams[t].roster) - Len(draftState.teams[u].roster) <= 1

C33_FullWhenCompleted ==
    draftState.status = "completed" =>
        \A t \in DOMAIN draftState.teams :
            Len(draftState.teams[t].roster) = draftState.settings.numRounds

\* C33: in every state reached from initializeDraft by executePick each
\* team's roster length is the number of entries of
\* draftOrder[0 .. currentPickIndex-1] that name the team, the roster
\* lengths of two teams differ by at most 1, and every team has exactly
\* numRounds players when the draft is completed.
C33_RosterLengths ==
    /\ C33_RosterIsTurnsTaken
    /\ C33_RostersBalanced
    /\ C33_FullWhenCompleted

(***************************************************************************)
(* Further properties of the engine, checked under Spec                    *)
(***************************************************************************)
\* C34: in every state reached from initializeDraft by executePick, a call
\* of validatePick or executePick with any team id and any player id fails
\* only with "Draft is not in progress", "Not this team's turn" or "Player
\* not available"; "Player already drafted", "Player not found" and "Team
\* not found" are never returned.
C34_ReachableErrors ==
    \A teamId \in TeamIdInputs, playerId \in PlayerIdInputs :
        LET validation == ValidatePick(draftState, teamId, playerId)
            r == ExecutePick(draftState, teamId, playerId)
        IN  /\ ~ validation.valid =>
                 validation.error[1] \in
                     { ErrNotInProgress, ErrWrongTurn, ErrPlayerUnavailable }
            /\ ~ r.success =>
                 r.error[1] \in { ErrNotInProgress, ErrWrongTurn, ErrPlayerUnavailable }

\* the team on the clock asked for a player that was picked before: the
\* call failed with "Player not available"
C34_Witness ==
    /\ call # NoCall
    /\ result # NoResult
    /\ ~ result[1].success
    /\ result[1].error = << ErrPlayerUnavailable >>
    /\ Some(draftState.picks, LAMBDA pick : pick.playerId = call[1].playerId)
    /\ CurrentTeamId(draftState) = << call[1].teamId >>

\* the sequence without its k-th entry
WithoutEntry(s, k) == SubSeq(s, 1, k - 1) \o SubSeq(s, k + 1, Len(s))

C35_FrameOfStep ==
    (result' # NoResult /\ result'[1].success) =>
        LET teamId == call'[1].teamId
            playerId == call'[1].playerId
        IN  /\ draftState'.id = draftState.id
            /\ draftState'.draftOrder = draftState.draftOrder
            /\ draftState'.settings = draftState.settings
            /\ draftState'.createdAt = draftState.createdAt
            /\ DOMAIN draftState'.teams = DOMAIN draftState.teams
            /\ \E k \in DOMAIN draftState.availablePlayers :
                  /\ draftState.availablePlayers[k].id = playerId
                  /\ draftState'.availablePlayers
                       = WithoutEntry(draftState.availablePlayers, k)
                  /\ \A t \in DOMAIN draftState.teams :
                        IF draftState.teams[t].id = teamId
                        THEN draftState'.teams[t] =
                               [ draftState.teams[t] EXCEPT !.roster =
                                   Append(@, draftState.availablePlayers[k]) ]
                        ELSE draftState'.teams[t] = draftState.teams[t]

\* C35: a successful executePick changes only the picking team's roster
\* (the player appended at the end), availablePlayers (that player removed,
\* the order of the rest preserved), picks, currentPickIndex, status and
\* updatedAt; every other team and the draft's id, draftOrder, settings and
\* createdAt are unchanged.
C35_SuccessfulPickFrame == [][C35_FrameOfStep]_vars

\* a successful pick took the second player of the catalog out of the
\* middle of the pool while another team already had a player
C35_Witness ==
    /\ result # NoResult
    /\ result[1].success
    /\ call[1].playerId = PlayerId(2)
    /\ Len(draftState.picks) = 2
    /\ Len(draftState.availablePlayers) = NumPlayers - 2
    /\ draftState.availablePlayers[1].id = PlayerId(1)

(***************************************************************************)
(* The store's makePick against the engine's executePick                   *)
(***************************************************************************)
\* makePick and executePick give the same picks, teams, pool, pick index
\* and status for every team and pooled player that validatePick accepts
MakePickAgrees(state) ==
    \A t \in DOMAIN state.teams, k \in DOMAIN state.availablePlayers :
        LET teamId == state.teams[t].id
            player == state.availablePlayers[k]
        IN  ValidatePick(state, teamId, player.id).valid =>
              LET made == MakePick(state, teamId, player)
                  r == ExecutePick(state, teamId, player.id)
              IN  /\ r.success
                  /\ made.picks = r.updatedState[1].picks
                  /\ made.teams = r.updatedState[1].teams
                  /\ made.availablePlayers = r.updatedState[1].availablePlayers
                  /\ made.currentPickIndex = r.updatedState[1].currentPickIndex
                  /\ made.status = r.updatedState[1].status

\* C36: the store's makePick and the engine's executePick agree: for every
\* state and every (team, player) that validatePick accepts, makePick
\* yields the same picks (but for the timestamp), rosters, availablePlayers,
\* currentPickIndex and status as executePick's updatedState.
C36_MakePickIsExecutePick == MakePickAgrees(store)

(***************************************************************************)
(* SpecLate: the pick routes late in a draft.  The stored draft is a       *)
(* league of two teams after LatePicks picks, made by the teams on the     *)
(* clock, in which the two players with the best ADP are still in the      *)
(* pool: at pick 42 the player with ADP 1.0 is more than 40 picks past his *)
(* ADP.                                                                    *)
(***************************************************************************)
LatePlayers == 44   \* size of the player pool of the late draft
LateRounds == 21    \* rounds of the late draft
LatePicks == 41     \* picks made before the routes are called

\* a ranked pool: player i has ADP i.0
LatePool ==
    [ i \in 1..LatePlayers |->
        [ id       |-> PlayerId(i),
          position |-> Cycle(PositionCycle, i),
          byeWeek  |-> Cycle(ByeWeekCycle, i),
          adp      |-> 10 * i ] ]

LateSettings == [ numTeams |-> MinTeams, numRounds |-> LateRounds ]

\* the created draft after the teams on the clock picked the players 3, 4,
\* ... in turn: the state LatePicks calls of executePick lead to, written
\* out field by field
LateDraft(userDraftPosition) ==
    LET created == AssignProfiles(
                       InitializeDraft(userDraftPosition, LateSettings, LatePool),
                       userDraftPosition, CycledProfiles(MinTeams))
        teamOf(i) == Find(created.teams, LAMBDA t : t.id = created.draftOrder[i])[1]
        picked == SubSeq(LatePool, 3, LatePicks + 2)
    IN  [ created EXCEPT
            !.picks = [ i \in 1..LatePicks |->
                          NewPick([ created EXCEPT !.currentPickIndex = i - 1 ],
                                  teamOf(i), PlayerId(i + 2)) ],
            !.teams = [ t \in DOMAIN created.teams |->
                          [ created.teams[t] EXCEPT !.roster =
                              SelectSeq(picked,
                                        LAMBDA p : created.draftOrder[(p.adp \div 10) - 2]
                                                     = created.teams[t].id) ] ],
            !.availablePlayers =
                SubSeq(LatePool, 1, 2) \o SubSeq(LatePool, LatePicks + 3, LatePlayers),
            !.currentPickIndex = LatePicks,
            !.status = IF LatePicks >= LateSettings.numTeams * LateSettings.numRounds
                       THEN "completed" ELSE "in_progress" ]

InitLate ==
    /\ \E userDraftPosition \in 1..MinTeams :
          drafts = MapSet(EmptyMap, DraftId, LateDraft(userDraftPosition))
    /\ reqs = EmptyBag
    /\ response = NoResponse
    /\ IdleEngine /\ IdleStore /\ IdlePure

NextLate ==
    \/ \E i \in 1..MinTeams :
          /\ AIPickBegin(DraftId, AITeamId(i))
          /\ UNCHANGED << engineVars, storeVars, pureVars >>
    \/ \E req \in BagToSet(reqs) :
         \E totalScores \in ScoreLists(Len(req.draft.availablePlayers)) :
          /\ AIPickResume(req, totalScores)
          /\ UNCHANGED << engineVars, storeVars, pureVars >>
    \/ \E i \in DOMAIN LatePool :
          /\ PickRoute(DraftId, UserTeamId, LatePool[i].id)
          /\ UNCHANGED << engineVars, storeVars, pureVars >>

SpecLate == InitLate /\ [][NextLate]_vars

\* validateAIPick is false exactly for a player outside the pool and for a
\* player more than 40 picks past his ADP
C37_ValidateAIPickValue ==
    \A draftId \in DOMAIN drafts :
        \A i \in DOMAIN LatePool, t \in DOMAIN drafts[draftId].teams :
            LET ds == drafts[draftId]
                inPool == \E k \in DOMAIN ds.availablePlayers :
                              ds.availablePlayers[k].id = LatePool[i].id
            IN  ValidateAIPick(LatePool[i], ds.teams[t], ds)
                  <=> (inPool /\ ~ (10 * (Len(ds.picks) + 1) - LatePool[i].adp > 400))

\* an answered /api/ai-pick request succeeds whenever its snapshot is in
\* progress with the team on the clock and a non-empty pool, and the stored
\* draft is then executePick of a player of that pool, whatever
\* validateAIPick says about the player
C37_RouteIgnoresAdvice ==
    \A req \in BagToSet(reqs) :
        Answers(req) =>
            LET legal == { k \in DOMAIN req.draft.availablePlayers :
                             ValidatePick(req.draft, req.teamId,
                                          req.draft.availablePlayers[k].id).valid }
            IN  legal # {} =>
                  /\ response'[1].body.success
                  /\ \E k \in legal :
                        drafts' = MapSet(drafts, req.draftId,
                                         ExecutePick(req.draft, req.teamId,
                                                     req.draft.availablePlayers[k].id)
                                            .updatedState[1])

\* C37: validateAIPick returns false when the player is not in
\* availablePlayers or when currentPick - adp > 40 and true otherwise, and
\* neither selectAIPick nor the /api/ai-pick route consults it: a legal pick
\* for which validateAIPick is false is still executed.
C37_ValidateAIPickAdvisory == [] C37_ValidateAIPickValue /\ [][C37_RouteIgnoresAdvice]_vars

\* the route has just stored pick 42 of an AI team: the player with ADP 1.0,
\* for whom validateAIPick was false in the snapshot of the request
C37_Witness ==
    /\ response # NoResponse
    /\ response[1].route = "ai-pick"
    /\ response[1].body.success
    /\ LET ds == drafts[DraftId]
           pick == ds.picks[Len(ds.picks)]
           before == [ ds EXCEPT !.currentPickIndex = pick.pickNumber - 1,
                                 !.availablePlayers = << LatePool[1] >> \o @ ]
       IN  /\ pick.playerId = LatePool[1].id
           /\ pick.isAIPick
           /\ ~ ValidateAIPick(LatePool[1], ds.teams[1], before)

(***************************************************************************)
(* SpecNeeds: calculateTeamNeeds for a team that rosters some number of    *)
(* players of one position, in rounds on both sides of the round limits,   *)
(* with the rosterSlots the home page sends and with a bench one slot      *)
(* shorter (a target of 4 for RB and WR instead of 5).                     *)
(***************************************************************************)
MaxRostered == 9    \* most players of one position on the roster

NeedRounds == { 1, 5, 6, 11, 12, 13 }

ShortBenchSlots == [ RosterSlots EXCEPT !["BENCH"] = 5 ]

\* a roster of count players of the position
RosterOf(position, count) ==
    [ i \in 1..count |->
        [ id |-> PlayerId(i), position |-> position, byeWeek |-> 0, adp |-> 10 * i ] ]

InitNeeds ==
    /\ \E position \in Range(Positions), count \in 0..MaxRostered,
          currentRound \in NeedRounds, rosterSlots \in { RosterSlots, ShortBenchSlots } :
          fin = << [ team |-> [ AITeam(1) EXCEPT !.roster = RosterOf(position, count) ],
                     settings |-> [ numTeams |-> 12, numRounds |-> 15,
                                    rosterSlots |-> rosterSlots ],
                     currentRound |-> currentRound ] >>
    /\ fout = <<>>
    /\ IdleEngine /\ IdleServer /\ IdleStore

ApplyNeeds ==
    /\ fout = <<>>
    /\ fout' = << CalculateTeamNeeds(fin[1].team, fin[1].settings, fin[1].currentRound) >>
    /\ UNCHANGED << fin, engineVars, serverVars, storeVars >>

NextNeeds == ApplyNeeds

SpecNeeds == InitNeeds /\ [][NextNeeds]_vars

\* the need the rules give, as the fraction << numerator, denominator >>
StatedNeed(position, rostered, target, currentRound) ==
    LET base == IF rostered = 0 THEN << 100, 1 >>
                ELSE IF rostered < target THEN << 80 * target - 30 * rostered, target >>
                ELSE IF rostered = target THEN << 40, 1 >>
                ELSE << Max(0, 30 - 10 * (rostered - target)), 1 >>
    IN  IF currentRound <= 5 /\ position \in { "K", "DEF" }
        THEN << base[1] * 3, base[2] * 10 >>
        ELSE IF currentRound <= 5 /\ position = "QB"
        THEN << base[1] * 7, base[2] * 10 >>
        ELSE IF currentRound >= 12 /\ position \in { "K", "DEF" } /\ rostered = 0
        THEN << 100, 1 >>
        ELSE base

\* the targets the rules give: slots, plus half the FLEX slots rounded up
\* and 35% of the bench rounded down for RB and WR, plus 10% of the bench
\* rounded down for QB and TE
StatedTarget(position, rosterSlots) ==
    IF position \in { "RB", "WR" }
    THEN rosterSlots[position] + ((rosterSlots["FLEX"] + 1) \div 2)
                               + ((35 * rosterSlots["BENCH"]) \div 100)
    ELSE IF position \in { "QB", "TE" }
    THEN rosterSlots[position] + (rosterSlots["BENCH"] \div 10)
    ELSE rosterSlots[position]

TierAdp == << 10, 90, 90, 186, 186, 300 >>
TierPosition == << "RB", "RB", "WR", "RB", "RB", "WR" >>
TierOf == << 1, 2, 1, 2, 2, 2 >>

TierCatalog ==
    [ i \in DOMAIN TierAdp |->
        [ id |-> PlayerId(i), position |-> TierPosition[i], team |-> "KC",
          byeWeek |-> 0, adp |-> TierAdp[i], tier |-> TierOf[i], riskScore |-> 0 ] ]

\* the players of the tier catalog whose index is in the set, in ADP order
TierPool(indexes) ==
    SelectSeq(TierCatalog, LAMBDA p : \E i \in indexes : TierCatalog[i].id = p.id)

InitTier ==
    /\ \E i \in DOMAIN TierCatalog, indexes \in SUBSET (DOMAIN TierCatalog) :
          fin = << [ player |-> TierCatalog[i], availablePlayers |-> TierPool(indexes) ] >>
    /\ fout = <<>>
    /\ IdleEngine /\ IdleServer /\ IdleStore

ApplyTier ==
    /\ fout = <<>>
    /\ fout' = << IsLastInTier(fin[1].player, fin[1].availablePlayers) >>
    /\ UNCHANGED << fin, engineVars, serverVars, storeVars >>

NextTier == ApplyTier

SpecTier == InitTier /\ [][NextTier]_vars

\* the same-position players that follow the player in the ADP-sorted pool
LaterAtPosition(player, pool) ==
    { j \in DOMAIN pool :
        /\ pool[j].position = player.position
        /\ \E i \in DOMAIN pool : pool[i].id = player.id /\ i < j }

\* the threshold of the player's tier, in tenths of an ADP point
StatedThreshold(player) ==
    CASE player.position = "QB" -> 150 + 30 * (player.tier - 1)
      [] player.position = "RB" -> 80 + 16 * (player.tier - 1)
      [] player.position = "WR" -> 100 + 20 * (player.tier - 1)
      [] player.position = "TE" -> 120 + 24 * (player.tier - 1)
      [] player.position = "K" -> 200 + 40 * (player.tier - 1)
      [] OTHER -> 180 + 36 * (player.tier - 1)

RECURSIVE SumAdp(_)
SumAdp(players) ==
    IF players = <<>> THEN 0 ELSE Head(players).adp + SumAdp(Tail(players))

\* the PositionTier pushed for currentTier; avgADP is the fraction
\* << sum of the ADPs, number of players >>
TierRecord(position, tierNumber, currentTier) ==
    [ position   |-> position,
      tierNumber |-> tierNumber,
      players    |-> currentTier,
      avgADP     |-> << SumAdp(currentTier), Len(currentTier) >>,
      remaining  |-> Len(currentTier) ]

\* the body of sorted.forEach for the player at the index, lines 47-81; loop
\* holds tiers, currentTier, tierNumber and lastADP
IdentifyStep(sorted, position, index, loop) ==
    LET player == sorted[index]
        adpGap == player.adp - loop.lastADP
        tierBreakThreshold == GetTierBreakThreshold(position, loop.tierNumber)
        break == adpGap > tierBreakThreshold /\ Len(loop.currentTier) > 0
        tiers == IF break
                 THEN Append(loop.tiers,
                             TierRecord(position, loop.tierNumber, loop.currentTier))
                 ELSE loop.tiers
        tierNumber == IF break THEN loop.tierNumber + 1 ELSE loop.tierNumber
        currentTier == IF break THEN << player >> ELSE Append(loop.currentTier, player)
    IN  [ tiers       |-> IF index = Len(sorted) /\ Len(currentTier) > 0
                          THEN Append(tiers, TierRecord(position, tierNumber, currentTier))
                          ELSE tiers,
          currentTier |-> currentTier,
          tierNumber  |-> tierNumber,
          lastADP     |-> player.adp ]

RECURSIVE IdentifyLoop(_, _, _)
IdentifyLoop(sorted, position, index) ==
    IF index = 0
    THEN [ tiers |-> <<>>, currentTier |-> <<>>, tierNumber |-> 1,
           lastADP |-> sorted[1].adp ]
    ELSE IdentifyStep(sorted, position, index, IdentifyLoop(sorted, position, index - 1))

IdentifyTiers(players, position) ==
    IF Len(players) = 0 THEN <<>>
    ELSE LET sorted == SortByAdp(players)
         IN  IdentifyLoop(sorted, position, Len(sorted)).tiers

(***************************************************************************)
(* SpecTiers: identifyTiers for every list of up to MaxGroup different     *)
(* players of a position group, in any order.  The group has gaps equal to *)
(* the thresholds of the tiers 1 and 2 of RB, gaps just above them and two *)
(* players with the same ADP.                                              *)
(***************************************************************************)
MaxGroup == 4    \* longest list of players handed to identifyTiers

GroupAdp == << 10, 90, 171, 267, 267, 364 >>

GroupCatalog ==
    [ i \in DOMAIN GroupAdp |->
        [ id |-> PlayerId(i), position |-> "RB", team |-> "KC", byeWeek |-> 0,
          adp |-> GroupAdp[i], tier |-> 1, riskScore |-> 0 ] ]

InitTiers ==
    /\ \E n \in 0..MaxGroup :
         \E indexes \in [ 1..n -> DOMAIN GroupCatalog ] :
            /\ \A i, j \in 1..n : indexes[i] = indexes[j] => i = j
            /\ \E position \in { "RB", "WR" } :
                  fin = << [ players |-> [ i \in 1..n |-> GroupCatalog[indexes[i]] ],
                             position |-> position ] >>
    /\ fout = <<>>
    /\ IdleEngine /\ IdleServer /\ IdleStore

ApplyTiers ==
    /\ fout = <<>>
    /\ fout' = << IdentifyTiers(fin[1].players, fin[1].position) >>
    /\ UNCHANGED << fin, engineVars, serverVars, storeVars >>

NextTiers == ApplyTiers

SpecTiers == InitTiers /\ [][NextTiers]_vars

\* the players of the tiers, tier after tier, each with the number of the
\* tier that holds it
RECURSIVE FlattenTiers(_)
FlattenTiers(tiers) ==
    IF tiers = <<>> THEN <<>>
    ELSE [ i \in DOMAIN Head(tiers).players |->
             [ player |-> Head(tiers).players[i], tierNumber |-> Head(tiers).tierNumber ] ]
         \o FlattenTiers(Tail(tiers))

\* C40: identifyTiers partitions the players of one position: every input
\* player belongs to exactly one tier, the tier numbers are 1..k without
\* gaps, the players are in ascending ADP order within and across tiers, a
\* new tier starts exactly at a player whose ADP gap to the previous player
\* exceeds baseThreshold(position) * (1 + 0.2 * (currentTierNumber - 1)),
\* and each tier's remaining count is its number of members.
C40_TiersPartition ==
    fout # <<>> =>
        LET tiers == fout[1]
            flat == FlattenTiers(tiers)
        IN  /\ \A p \in Range(fin[1].players) :
                  Cardinality({ i \in DOMAIN flat : flat[i].player = p }) = 1
            /\ Len(flat) = Len(fin[1].players)
            /\ \A k \in DOMAIN tiers :
                  /\ tiers[k].tierNumber = k
                  /\ tiers[k].position = fin[1].position
                  /\ Len(tiers[k].players) > 0
                  /\ tiers[k].remaining = Len(tiers[k].players)
            /\ \A i \in 1..(Len(flat) - 1) :
                  LET gap == flat[i + 1].player.adp - flat[i].player.adp
                      threshold ==
                          StatedThreshold([ position |-> fin[1].position,
                                            tier |-> flat[i].tierNumber ])
                  IN  /\ gap >= 0
                      /\ flat[i + 1].tierNumber =
                            IF gap > threshold THEN flat[i].tierNumber + 1
                            ELSE flat[i].tierNumber
            /\ Len(flat) > 0 => flat[1].tierNumber = 1

\* four running backs handed over out of order: the gap of 8.1 opens tier
\* 2, the gap of 9.6 equals the threshold of tier 2 and opens none
C40_Witness ==
    /\ fout # <<>>
    /\ fin[1].position = "RB"
    /\ fin[1].players = << GroupCatalog[4], GroupCatalog[1], GroupCatalog[3], GroupCatalog[2] >>
    /\ Len(fout[1]) = 2
    /\ fout[1][1].players = << GroupCatalog[1], GroupCatalog[2] >>
    /\ fout[1][2].players = << GroupCatalog[3], GroupCatalog[4] >>
    /\ fout[1][2].remaining = 2

====
